---- MODULE Spec2Model ----
(***************************************************************************)
(* Model of the adaptive multi-timeframe ensemble engine                   *)
(* (src/utils/ensemble-multi-tf.ts, class EnsembleAdaptive) and of the     *)
(* indicator evaluators' decision() wrappers it calls.                     *)
(*                                                                         *)
(* Numbers.  The engine computes with IEEE doubles; the model computes     *)
(* with exact rationals.  A rational is a record [n |-> num, d |-> den]    *)
(* with den > 0; numerators and denominators are arbitrary-size integers   *)
(* held as little-endian sequences of limbs in base Base (the value of a   *)
(* sequence s is the sum of s[i] * Base^(i-1)).                            *)
(***************************************************************************)
EXTENDS Integers, Sequences, FiniteSets, TLC

VARIABLES indicatorBase, perf, out, nSets

vars == <<indicatorBase, perf, out, nSets>>

(***************************************************************************)
(* Arbitrary-size integers                                                 *)
(***************************************************************************)
Base == 100 * 100

MaxOf(a, b) == IF a >= b THEN a ELSE b

\* f itself.  TLC keeps [x \in S |-> e] as a rule and evaluates e again at
\* every application; merging with the empty function makes it a table.
Eager(f) == f @@ <<>>

RECURSIVE BCarry(_, _)
BCarry(s, c) ==
  IF s = <<>>
    THEN IF c = 0 THEN <<>>
         ELSE IF c >= -Base /\ c < Base THEN <<c>>
         ELSE <<c % Base>> \o BCarry(<<>>, c \div Base)
    ELSE LET x == Head(s) + c
         IN  <<x % Base>> \o BCarry(Tail(s), x \div Base)

RECURSIVE BStrip(_)
BStrip(s) ==
  IF s = <<>> THEN <<0>>
  ELSE IF Len(s) = 1 THEN s
  ELSE LET t == s[Len(s)]
       IN  IF t = 0 THEN BStrip(SubSeq(s, 1, Len(s) - 1))
           ELSE IF t = -1
             THEN BStrip(SubSeq(s, 1, Len(s) - 2) \o <<s[Len(s) - 1] - Base>>)
           ELSE s

BNorm(s) == BStrip(BCarry(s, 0))

BInt(i) == BNorm(<<i>>)

Limb(a, i) == IF i <= Len(a) THEN a[i] ELSE 0

BSign(a) ==
  LET t == a[Len(a)]
  IN  IF t > 0 THEN 1 ELSE IF t < 0 THEN -1 ELSE 0

BAdd(a, b) == BNorm([i \in 1..MaxOf(Len(a), Len(b)) |-> Limb(a, i) + Limb(b, i)])

BNeg(a) == BNorm([i \in 1..Len(a) |-> -a[i]])

BSub(a, b) == BNorm([i \in 1..MaxOf(Len(a), Len(b)) |-> Limb(a, i) - Limb(b, i)])

RECURSIVE BColumn(_, _, _, _)
BColumn(a, b, k, i) ==
  IF i > Len(a) \/ i > k THEN 0
  ELSE (IF k + 1 - i <= Len(b) THEN a[i] * b[k + 1 - i] ELSE 0)
       + BColumn(a, b, k, i + 1)

BMul(a, b) ==
  IF a = <<1>> THEN b
  ELSE IF b = <<1>> THEN a
  ELSE BNorm([k \in 1..(Len(a) + Len(b) - 1) |-> BColumn(a, b, k, 1)])

BLe(a, b) == BSign(BSub(a, b)) <= 0
BLt(a, b) == BSign(BSub(a, b)) < 0
BMax(a, b) == IF BLe(b, a) THEN a ELSE b

\* a \div m and a % m for a small positive machine integer m
RECURSIVE BDivLimbs(_, _, _, _)
BDivLimbs(a, m, i, rem) ==
  IF i = 0 THEN <<>>
  ELSE LET cur == rem * Base + a[i]
       IN  BDivLimbs(a, m, i - 1, cur % m) \o <<cur \div m>>

BDivSmall(a, m) == BStrip(BDivLimbs(a, m, Len(a), 0))

\* Base is a multiple of 10, so a % 2, a % 5 and a % 10 depend on a[1] alone
BDivisible(a, m) == a[1] % m = 0

(***************************************************************************)
(* Exact rationals.  Every denominator the engine's constants and the      *)
(* modelled inputs produce is a product of 2s and 5s times a sum of        *)
(* weights, so results are kept small by cancelling common factors 2, 5.   *)
(***************************************************************************)
RECURSIVE Rn(_, _)
Rn(n, d) ==
  IF BSign(n) = 0 THEN [n |-> <<0>>, d |-> <<1>>]
  ELSE IF BDivisible(n, 10) /\ BDivisible(d, 10)
    THEN Rn(BDivSmall(n, 10), BDivSmall(d, 10))
  ELSE IF BDivisible(n, 2) /\ BDivisible(d, 2)
    THEN Rn(BDivSmall(n, 2), BDivSmall(d, 2))
  ELSE IF BDivisible(n, 5) /\ BDivisible(d, 5)
    THEN Rn(BDivSmall(n, 5), BDivSmall(d, 5))
  ELSE [n |-> n, d |-> d]

R(n, d) == Rn(BInt(n), BInt(d))

Zero == R(0, 1)
One == R(1, 1)

RAdd(a, b) ==
  IF a.d = b.d THEN Rn(BAdd(a.n, b.n), a.d)
  ELSE Rn(BAdd(BMul(a.n, b.d), BMul(b.n, a.d)), BMul(a.d, b.d))

RNeg(a) == [n |-> BNeg(a.n), d |-> a.d]

RSub(a, b) == RAdd(a, RNeg(b))

RMul(a, b) == Rn(BMul(a.n, b.n), BMul(a.d, b.d))

\* a / b for b # 0
RDiv(a, b) ==
  LET nn == IF a.d = b.d THEN a.n ELSE BMul(a.n, b.d)
      dd == IF a.d = b.d THEN b.n ELSE BMul(a.d, b.n)
  IN  IF BSign(dd) < 0 THEN Rn(BNeg(nn), BNeg(dd)) ELSE Rn(nn, dd)

RSign(a) == BSign(a.n)

RCmp(a, b) ==
  IF a.d = b.d THEN BSign(BSub(a.n, b.n))
  ELSE BSign(BSub(BMul(a.n, b.d), BMul(b.n, a.d)))

RLt(a, b) == RCmp(a, b) < 0
RLe(a, b) == RCmp(a, b) <= 0
REq(a, b) == RCmp(a, b) = 0

RMax(a, b) == IF RLe(b, a) THEN a ELSE b
RMin(a, b) == IF RLe(a, b) THEN a ELSE b
RAbs(a) == IF RSign(a) < 0 THEN RNeg(a) ELSE a

(***************************************************************************)
(* Learner hyper-parameters (private fields of EnsembleAdaptive)           *)
(***************************************************************************)
alpha == R(12, 100)
maxBoost == R(135, 100)
maxCut == R(65, 100)
minWeight == R(2, 100)

\* clamp without its bounds
clampMutNone(x, a, b) == x

clamp(x, a, b) == RMax(a, RMin(b, x))

(***************************************************************************)
(* Bounds                                                                  *)
(***************************************************************************)
\* updates one performance record receives in the learner-only specification
MaxN == 5
\* setBaselineWeights calls in one behaviour
MaxSets == 1
\* ids processed by updateWithOutcome in one behaviour of the full machine
MaxUpdates == 2
\* timeframes in one decision() call
MaxTF == 2
\* timeframes in one decision() call of the stop-loss specification
MaxStopTF == 4
\* decisions handed to one ensembleDecision() call
MaxDecisions == 3

(***************************************************************************)
(* Outcome feedback: updateWithOutcome                                     *)
(***************************************************************************)
\* a new record starting from a win rate of 0
NewPerfMutZeroWin == [ewmaWin |-> Zero, ewmaEdge |-> Zero, n |-> 0]

NewPerf == [ewmaWin |-> R(5, 10), ewmaEdge |-> Zero, n |-> 0]

\* the loop body with a zero outcome counted as a win
UpdateOneMutZeroWins(p, outcomePct, id) ==
  LET cur == IF id \in DOMAIN p THEN p[id] ELSE NewPerf
      win == IF RLe(Zero, outcomePct) THEN One ELSE Zero
      upd == [ewmaWin  |-> RAdd(RMul(RSub(One, alpha), cur.ewmaWin), RMul(alpha, win)),
              ewmaEdge |-> RAdd(RMul(RSub(One, alpha), cur.ewmaEdge),
                                RMul(alpha, outcomePct)),
              n        |-> cur.n + 1]
  IN  Eager([k \in DOMAIN p \cup {id} |-> IF k = id THEN upd ELSE p[k]])

\* every record known so far counting the trade
UpdateOneMutCountsAll(p, outcomePct, id) ==
  LET cur == IF id \in DOMAIN p THEN p[id] ELSE NewPerf
      win == IF RLt(Zero, outcomePct) THEN One ELSE Zero
      upd == [ewmaWin  |-> RAdd(RMul(RSub(One, alpha), cur.ewmaWin), RMul(alpha, win)),
              ewmaEdge |-> RAdd(RMul(RSub(One, alpha), cur.ewmaEdge),
                                RMul(alpha, outcomePct)),
              n        |-> cur.n + 1]
  IN  Eager([k \in DOMAIN p \cup {id} |->
               IF k = id THEN upd ELSE [p[k] EXCEPT !.n = @ + 1]])

\* the body of the for-loop, for one id
UpdateOne(p, outcomePct, id) ==
  LET cur == IF id \in DOMAIN p THEN p[id] ELSE NewPerf
      win == IF RLt(Zero, outcomePct) THEN One ELSE Zero
      upd == [ewmaWin  |-> RAdd(RMul(RSub(One, alpha), cur.ewmaWin), RMul(alpha, win)),
              ewmaEdge |-> RAdd(RMul(RSub(One, alpha), cur.ewmaEdge),
                                RMul(alpha, outcomePct)),
              n        |-> cur.n + 1]
  IN  Eager([k \in DOMAIN p \cup {id} |-> IF k = id THEN upd ELSE p[k]])

RECURSIVE updateWithOutcome(_, _, _)
updateWithOutcome(p, outcomePct, usedIndicators) ==
  IF usedIndicators = <<>> THEN p
  ELSE updateWithOutcome(UpdateOne(p, outcomePct, Head(usedIndicators)),
                         outcomePct, Tail(usedIndicators))

\* the multiplier with the win-rate adjustment reversed
perfMultiplierMutWinSign(p, id) ==
  IF id \notin DOMAIN p THEN One
  ELSE LET winAdj == RMul(RSub(R(5, 10), p[id].ewmaWin), R(2, 1))
           edgeAdj == RDiv(clamp(p[id].ewmaEdge, R(-15, 10), R(15, 10)), R(15, 10))
           mix == RAdd(RMul(R(6, 10), winAdj), RMul(R(4, 10), edgeAdj))
           mult == IF RSign(mix) >= 0
                     THEN RAdd(One, RMul(mix, RSub(maxBoost, One)))
                     ELSE RAdd(One, RMul(mix, RSub(One, maxCut)))
       IN  clamp(mult, maxCut, maxBoost)

perfMultiplier(p, id) ==
  IF id \notin DOMAIN p THEN One
  ELSE LET winAdj == RMul(RSub(p[id].ewmaWin, R(5, 10)), R(2, 1))
           edgeAdj == RDiv(clamp(p[id].ewmaEdge, R(-15, 10), R(15, 10)), R(15, 10))
           mix == RAdd(RMul(R(6, 10), winAdj), RMul(R(4, 10), edgeAdj))
           mult == IF RSign(mix) >= 0
                     THEN RAdd(One, RMul(mix, RSub(maxBoost, One)))
                     ELSE RAdd(One, RMul(mix, RSub(One, maxCut)))
       IN  clamp(mult, maxCut, maxBoost)

(***************************************************************************)
(* Indicator weights.  A weight map is held as integer numerators v[k]     *)
(* over one common positive denominator d: the weight of k is v[k] / d.    *)
(***************************************************************************)
IndicatorIds ==
  {"ema", "macd", "ichimoku", "rsi", "adx", "bollinger", "vwap", "alligator", "volume"}

\* the field initialiser of indicatorBase, in hundredths
DefaultBase ==
  [v |-> [k \in IndicatorIds |->
            BInt(CASE k = "ema" -> 18 [] k = "macd" -> 18 [] k = "ichimoku" -> 14
                   [] k = "rsi" -> 12 [] k = "adx" -> 10 [] k = "bollinger" -> 10
                   [] k = "vwap" -> 8 [] k = "alligator" -> 6 [] k = "volume" -> 4)],
   d |-> BInt(100)]

W(w, k) == Rn(w.v[k], w.d)

\* cancel the factors 2 and 5 common to every numerator and the denominator
RECURSIVE WReduce(_)
WReduce(w) ==
  LET all(m) == BDivisible(w.d, m) /\ \A k \in DOMAIN w.v : BDivisible(w.v[k], m)
      by(m) == WReduce([v |-> Eager([k \in DOMAIN w.v |-> BDivSmall(w.v[k], m)]),
                        d |-> BDivSmall(w.d, m)])
  IN  IF all(10) THEN by(10) ELSE IF all(2) THEN by(2) ELSE IF all(5) THEN by(5) ELSE w

RECURSIVE BSumOver(_, _)
BSumOver(f, S) ==
  IF S = {} THEN BInt(0)
  ELSE LET k == CHOOSE x \in S : TRUE
       IN  BAdd(f[k], BSumOver(f, S \ {k}))

RECURSIVE BProdOver(_, _)
BProdOver(f, S) ==
  IF S = {} THEN BInt(1)
  ELSE LET k == CHOOSE x \in S : TRUE
       IN  BMul(f[k], BProdOver(f, S \ {k}))

\* Object.values(w).reduce((a, b) => a + b, 0)
SumValues(w) == Rn(BSumOver(w.v, DOMAIN w.v), w.d)

\* With s the total of the numerators, sum <= 0 exactly when s <= 0, and
\* w[k] / sum is v[k] / s, so
\* max(minWeight, w[k] / sum) is max(minWeight.n * s, minWeight.d * v[k])
\* over the denominator minWeight.d * s; dividing by sum2 leaves the
\* numerators over their own total.
normalizeWeights(w) ==
  LET Renormalized(outw) == WReduce([v |-> outw, d |-> BSumOver(outw, DOMAIN outw)])
      Floored(s) ==
        IF BSign(s) <= 0 THEN w
        ELSE Renormalized(Eager([k \in DOMAIN w.v |->
                            BMax(BMul(minWeight.n, s), BMul(minWeight.d, w.v[k]))]))
  IN  Floored(BSumOver(w.v, DOMAIN w.v))

(***************************************************************************)
(* Timeframe labels are strings, held as sequences of characters.          *)
(***************************************************************************)
Upper == <<"A", "B", "C", "D", "E", "F", "G", "H", "I", "J", "K", "L", "M",
           "N", "O", "P", "Q", "R", "S", "T", "U", "V", "W", "X", "Y", "Z">>
Lower == <<"a", "b", "c", "d", "e", "f", "g", "h", "i", "j", "k", "l", "m",
           "n", "o", "p", "q", "r", "s", "t", "u", "v", "w", "x", "y", "z">>

toLowerCase(s) ==
  [i \in 1..Len(s) |->
     IF \E j \in 1..Len(Upper) : Upper[j] = s[i]
       THEN Lower[CHOOSE j \in 1..Len(Upper) : Upper[j] = s[i]]
       ELSE s[i]]

includes(s, sub) ==
  \E i \in 1..(Len(s) - Len(sub) + 1) : SubSeq(s, i, i + Len(sub) - 1) = sub

\* /^(1|3|5|15|30)m$|^1h$/.test(interval)
isIntra(interval) ==
  \/ interval \in {<<"1", "m">>, <<"3", "m">>, <<"5", "m">>,
                   <<"1", "5", "m">>, <<"3", "0", "m">>}
  \/ interval = <<"1", "h">>

\* the HTF branch with the deltas of the intraday branch reversed
TiltedMutMirror(interval, base) ==
  LET c == BInt(100)
      plus(s, k, h) == BAdd(s[k], BMul(BInt(h), base.d))
      minus(s, k, h) == BMax(BInt(0), BSub(s[k], BMul(BInt(h), base.d)))
      w(s) == IF isIntra(interval)
                THEN [s EXCEPT !["vwap"] = plus(s, "vwap", 3),
                               !["volume"] = plus(s, "volume", 2),
                               !["ichimoku"] = minus(s, "ichimoku", 3),
                               !["alligator"] = minus(s, "alligator", 2)]
                ELSE [s EXCEPT !["vwap"] = minus(s, "vwap", 3),
                               !["volume"] = minus(s, "volume", 2),
                               !["ichimoku"] = plus(s, "ichimoku", 3),
                               !["alligator"] = plus(s, "alligator", 2)]
  IN  [v |-> w(Eager([k \in DOMAIN base.v |-> BMul(c, base.v[k])])),
       d |-> BMul(c, base.d)]

\* the copy w of base after the if-else.  The tilt deltas are in
\* hundredths: the map is rescaled by 100 first
Tilted(interval, base) ==
  LET c == BInt(100)
      plus(s, k, h) == BAdd(s[k], BMul(BInt(h), base.d))
      minus(s, k, h) == BMax(BInt(0), BSub(s[k], BMul(BInt(h), base.d)))
      w(s) == IF isIntra(interval)
                THEN [s EXCEPT !["vwap"] = plus(s, "vwap", 3),
                               !["volume"] = plus(s, "volume", 2),
                               !["ichimoku"] = minus(s, "ichimoku", 3),
                               !["alligator"] = minus(s, "alligator", 2)]
                ELSE [s EXCEPT !["ema"] = plus(s, "ema", 2),
                               !["ichimoku"] = plus(s, "ichimoku", 2),
                               !["vwap"] = minus(s, "vwap", 2),
                               !["volume"] = minus(s, "volume", 2)]
  IN  [v |-> w(Eager([k \in DOMAIN base.v |-> BMul(c, base.v[k])])),
       d |-> BMul(c, base.d)]

adaptWeightsByInterval(interval, base) == normalizeWeights(Tilted(interval, base))

tfAutoWeight(label) ==
  LET L == toLowerCase(label)
  IN  IF includes(L, <<"1", "d">>) \/ L = <<"d">>
         \/ includes(L, <<"d", "a", "i", "l", "y">>) THEN R(20, 10)
      ELSE IF includes(L, <<"4", "h">>) THEN R(16, 10)
      ELSE IF includes(L, <<"1", "h">>) THEN R(14, 10)
      ELSE IF includes(L, <<"3", "0", "m">>) THEN R(12, 10)
      ELSE IF includes(L, <<"1", "5", "m">>) THEN R(11, 10)
      ELSE R(10, 10)

\* baseline -> timeframe tilt -> performance multiplier -> normalize.
\* adapt[k] * perfMultiplier(k): the numerator of k is multiplied by the
\* numerator of its multiplier and by the denominators of the others.
buildIndicatorWeightsForTF(base, p, tfLabel) ==
  LET perfAdj(adapt, m, md) ==
        [v |-> Eager([k \in DOMAIN adapt.v |->
                        BMul(BMul(adapt.v[k], m[k].n),
                             BProdOver(md, DOMAIN adapt.v \ {k}))]),
         d |-> BMul(adapt.d, BProdOver(md, DOMAIN adapt.v))]
      multiplied(adapt, m) == perfAdj(adapt, m, Eager([k \in DOMAIN m |-> m[k].d]))
      adapted(adapt) ==
        multiplied(adapt, Eager([k \in DOMAIN adapt.v |-> perfMultiplier(p, k)]))
  IN  normalizeWeights(adapted(adaptWeightsByInterval(tfLabel, base)))

\* JavaScript's undefined where a number is expected
Undef == [n |-> <<0>>, d |-> <<0>>]
IsNum(x) == x.d # <<0>>

\* next: a partial map, id -> rational or Undef.  The given weights are
\* brought to the common denominator base.d * q, q the product of theirs.
setBaselineWeights(base, next) ==
  LET F == {k \in DOMAIN next : IsNum(next[k])}
      K == DOMAIN base.v \cup F
      fd == Eager([k \in F |-> next[k].d])
      q == BProdOver(fd, F)
      merged == [v |-> Eager([k \in K |->
                          IF k \in F
                            THEN BMul(BMul(next[k].n, BProdOver(fd, F \ {k})), base.d)
                            ELSE BMul(base.v[k], q)]),
                 d |-> BMul(base.d, q)]
  IN  normalizeWeights(merged)

(***************************************************************************)
(* Indicator evaluators.  The arithmetic of calculate() is outside the     *)
(* model: what calculate() returned on a timeframe's candles is an input,  *)
(* one record per indicator:                                               *)
(*   kind = "throw"  the evaluator raised,                                 *)
(*   kind = "fail"   calculate() returned ok:false,                        *)
(*   kind = "ok"     with entrySignal, confidence, quality, stopLong,      *)
(*                   stopShort and lastATR                                 *)
(* where quality is the value decision() derives from the calculation.     *)
(* params.missing says that decision() was called without a timeframes     *)
(* list.                                                                   *)
(***************************************************************************)

Invalid(id) ==
  [id |-> id, direction |-> "none", entry |-> "no-trigger",
   score |-> [directional |-> 0, confidence |-> Zero, quality |-> R(5, 10)],
   health |-> [isValid |-> FALSE],
   data |-> [stopLong |-> Undef, stopShort |-> Undef, lastATR |-> Undef]]

Valid(id, r, confidence) ==
  LET dir == IF r.entrySignal = "long" THEN 1
             ELSE IF r.entrySignal = "short" THEN -1 ELSE 0
  IN  [id |-> id,
       direction |-> IF dir > 0 THEN "buy" ELSE IF dir < 0 THEN "sell" ELSE "none",
       entry |-> IF dir # 0 THEN "triggered" ELSE "no-trigger",
       score |-> [directional |-> dir, confidence |-> confidence,
                  quality |-> r.quality],
       health |-> [isValid |-> TRUE],
       data |-> [stopLong |-> r.stopLong, stopShort |-> r.stopShort,
                 lastATR |-> r.lastATR]]

\* EMA, Ichimoku, Alligator, VWAP, Bollinger, ADX and Volume share one shape
IndicatorDecision(id, r) ==
  IF r.kind # "ok" THEN Invalid(id) ELSE Valid(id, r, r.confidence)

MACDDecision(r) ==
  IF r.kind # "ok" THEN Invalid("macd")
  ELSE Valid("macd", r, RMax(Zero, RMin(One, r.confidence)))

\* RSI has no ok:false branch: r.entrySignal is undefined on a failed calculation
RSIDecision(r) ==
  LET sig == IF r.kind = "ok" THEN r.entrySignal ELSE "undefined"
  IN  [id |-> "rsi14",
       direction |-> IF sig = "long" THEN "buy"
                     ELSE IF sig = "short" THEN "sell" ELSE "none",
       entry |-> IF sig \in {"long", "short"} THEN "triggered" ELSE "no-trigger",
       score |-> [directional |-> IF sig = "long" THEN 1
                                  ELSE IF sig = "short" THEN -1 ELSE 0,
                  confidence |-> One, quality |-> One],
       health |-> [isValid |-> r.kind = "ok"],
       data |-> [stopLong |-> Undef, stopShort |-> Undef, lastATR |-> Undef]]

Evaluate(id, r) ==
  IF id = "rsi" THEN RSIDecision(r)
  ELSE IF id = "macd" THEN MACDDecision(r)
  ELSE IndicatorDecision(id, r)

(***************************************************************************)
(* decision(): per-timeframe votes and scores                              *)
(***************************************************************************)
QUALITY_DEFAULT == R(9, 10)

dirNum(d) == IF d = "buy" THEN 1 ELSE IF d = "sell" THEN -1 ELSE 0

\* the order of the try-blocks
EvalOrder ==
  <<"ema", "macd", "rsi", "ichimoku", "alligator", "vwap", "bollinger", "adx", "volume">>

\* closes[i] for a JavaScript (0-based) index i
At(closes, i) == IF i >= 0 /\ i < Len(closes) THEN closes[i + 1] ELSE Undef

LastIndex(closes, confirmOnClose) ==
  IF confirmOnClose THEN Len(closes) - 2 ELSE Len(closes) - 1

\* a try-block whose catch pushes the vote of a failed calculation
VoteOfMutThrowVotes(id, r, lastClose) ==
  LET res == Evaluate(id, r)
  IN  <<[id |-> id,
         dir |-> dirNum(res.direction),
         conf |-> res.score.confidence,
         qual |-> res.score.quality,
         priceRef |-> IF id = "ema" THEN lastClose ELSE Undef,
         stopLong |-> IF id = "ema" THEN res.data.stopLong ELSE Undef,
         stopShort |-> IF id = "ema" THEN res.data.stopShort ELSE Undef,
         atr |-> IF id = "ema" THEN res.data.lastATR ELSE Undef]>>

\* one try-block: the vote pushed for id, or nothing when the evaluator throws
VoteOf(id, r, lastClose) ==
  IF r.kind = "throw" THEN <<>>
  ELSE LET res == Evaluate(id, r)
       IN  <<[id |-> id,
              dir |-> dirNum(res.direction),
              conf |-> res.score.confidence,
              qual |-> res.score.quality,
              priceRef |-> IF id = "ema" THEN lastClose ELSE Undef,
              stopLong |-> IF id = "ema" THEN res.data.stopLong ELSE Undef,
              stopShort |-> IF id = "ema" THEN res.data.stopShort ELSE Undef,
              atr |-> IF id = "ema" THEN res.data.lastATR ELSE Undef]>>

RECURSIVE CollectVotes(_, _, _)
CollectVotes(tf, lastClose, i) ==
  IF i > Len(EvalOrder) THEN <<>>
  ELSE VoteOf(EvalOrder[i], tf.res[EvalOrder[i]], lastClose)
       \o CollectVotes(tf, lastClose, i + 1)

RECURSIVE RSumSeq(_)
RSumSeq(s) == IF s = <<>> THEN Zero ELSE RAdd(Head(s), RSumSeq(Tail(s)))

RInt(i) == R(i, 1)

AbsInt(i) == IF i < 0 THEN -i ELSE i

Qual(v) == IF IsNum(v.qual) THEN v.qual ELSE QUALITY_DEFAULT

\* wInd[v.id] ?? 0
WOf(wInd, id) == IF id \in DOMAIN wInd.v THEN W(wInd, id) ELSE Zero

NumTerm(v, wInd) ==
  RMul(RMul(RMul(RInt(v.dir), v.conf), Qual(v)), WOf(wInd, v.id))

DenTermMutNoAbs(v, wInd) ==
  RMul(RMul(v.conf, Qual(v)), WOf(wInd, v.id))

DenTerm(v, wInd) ==
  RMul(RMul(RMul(RInt(AbsInt(v.dir)), v.conf), Qual(v)), WOf(wInd, v.id))

\* x || 1
OrOne(x) == IF RSign(x) = 0 THEN One ELSE x

TfScore(votes, wInd) ==
  LET num == RSumSeq([j \in 1..Len(votes) |-> NumTerm(votes[j], wInd)])
      den == OrOne(RSumSeq([j \in 1..Len(votes) |-> DenTerm(votes[j], wInd)]))
  IN  RDiv(num, den)

\* the body of the loop over timeframes, for one timeframe
TfVote(base, p, tf, confirmOnClose) ==
  LET tfW == IF IsNum(tf.weight) THEN tf.weight ELSE tfAutoWeight(tf.label)
      closes == tf.candles.closes
      lastClose == IF Len(closes) > 0
                     THEN At(closes, LastIndex(closes, confirmOnClose))
                     ELSE Undef
      pushed(wInd, votes) ==
        [tf |-> tf.label, weight |-> tfW, votes |-> votes, wInd |-> wInd,
         tfScore |-> TfScore(votes, wInd)]
  IN  pushed(buildIndicatorWeightsForTF(base, p, tf.label),
             CollectVotes(tf, lastClose, 1))

(***************************************************************************)
(* decision(): aggregation across timeframes, stop-loss, sizing            *)
(***************************************************************************)
\* a destructuring default
Default(x, dflt) == IF IsNum(x) THEN x ELSE dflt

Sign(x) == RSign(x)

RECURSIVE Flatten(_)
Flatten(ss) == IF ss = <<>> THEN <<>> ELSE Head(ss) \o Flatten(Tail(ss))

RECURSIVE SelectSeqR(_, _)
SelectSeqR(s, keep) ==
  IF s = <<>> THEN <<>>
  ELSE (IF keep[1] THEN <<Head(s)>> ELSE <<>>)
       \o SelectSeqR(Tail(s), Tail(keep))

\* s.filter(pred), pred given as the sequence of its truth values
Filter(s, keep) == SelectSeqR(s, keep)

\* insertion into an ascending sequence: stops.sort((a, b) => a - b)
RECURSIVE Insert(_, _)
Insert(x, s) ==
  IF s = <<>> THEN <<x>>
  ELSE IF RLe(x, Head(s)) THEN <<x>> \o s
  ELSE <<Head(s)>> \o Insert(x, Tail(s))

RECURSIVE SortAsc(_)
SortAsc(s) == IF s = <<>> THEN <<>> ELSE Insert(Head(s), SortAsc(Tail(s)))

\* the even count taking the upper middle value
MedianMutUpperMiddle(stops) == stops[(Len(stops) \div 2) + 1]

Median(stops) ==
  LET mid == Len(stops) \div 2
  IN  IF Len(stops) % 2 = 1 THEN stops[mid + 1]
      ELSE RDiv(RAdd(stops[mid], stops[mid + 1]), RInt(2))

\* the empty-input result reporting the neutral confidence 0.5
EmptyResultMutHalfConfidence ==
  [ok |-> TRUE, direction |-> "none", entry |-> "no-trigger",
   score |-> [directional |-> 0, confidence |-> R(5, 10), quality |-> R(5, 10)],
   sizing |-> [present |-> FALSE, positionPctOfDailyLimit |-> Undef,
               stopLossPrice |-> Undef],
   weightsUsed |-> [tfWeights |-> <<>>, indicatorWeights |-> <<>>],
   breakdown |-> [ensembleScore |-> Zero, tfScores |-> <<>>, indicators |-> <<>>,
                  stopBlend |-> [present |-> FALSE, chosen |-> Undef,
                                 candidates |-> <<>>]]]

\* sizing: undefined and stopBlend: undefined
\* a sizing object returned whatever the direction
NoSizingMutPresent ==
  [present |-> TRUE, positionPctOfDailyLimit |-> Zero, stopLossPrice |-> Undef]

NoSizing ==
  [present |-> FALSE, positionPctOfDailyLimit |-> Undef, stopLossPrice |-> Undef]
NoStopBlend == [present |-> FALSE, chosen |-> Undef, candidates |-> <<>>]

EmptyResult ==
  [ok |-> TRUE, direction |-> "none", entry |-> "no-trigger",
   score |-> [directional |-> 0, confidence |-> Zero, quality |-> R(5, 10)],
   sizing |-> NoSizing,
   weightsUsed |-> [tfWeights |-> <<>>, indicatorWeights |-> <<>>],
   breakdown |-> [ensembleScore |-> Zero, tfScores |-> <<>>, indicators |-> <<>>,
                  stopBlend |-> NoStopBlend]]

\* the comparisons made strict
FinalDirMutStrict(ensembleScore, buyThreshold, sellThreshold) ==
  IF RLt(buyThreshold, ensembleScore) THEN "buy"
  ELSE IF RLt(ensembleScore, sellThreshold) THEN "sell"
  ELSE "none"

FinalDir(ensembleScore, buyThreshold, sellThreshold) ==
  IF RLe(buyThreshold, ensembleScore) THEN "buy"
  ELSE IF RLe(ensembleScore, sellThreshold) THEN "sell"
  ELSE "none"

\* the weighted sum, not divided by the total weight
EnsembleScoreMutNoDivide(tfVotes) ==
  RSumSeq([j \in 1..Len(tfVotes) |-> RMul(tfVotes[j].weight, tfVotes[j].tfScore)])

EnsembleScore(tfVotes) ==
  LET totalW == OrOne(RSumSeq([j \in 1..Len(tfVotes) |-> tfVotes[j].weight]))
  IN  RDiv(RSumSeq([j \in 1..Len(tfVotes) |->
                      RMul(tfVotes[j].weight, tfVotes[j].tfScore)]), totalW)

\* the weights of the votes taken from the engine as it was constructed
AllVotesMutStaleWeights(tfVotes) ==
  Flatten([j \in 1..Len(tfVotes) |->
             [i \in 1..Len(tfVotes[j].votes) |->
                [tf |-> tfVotes[j].tf, v |-> tfVotes[j].votes[i],
                 tfW |-> tfVotes[j].weight,
                 wInd |-> WOf(buildIndicatorWeightsForTF(DefaultBase, <<>>, tfVotes[j].tf),
                              tfVotes[j].votes[i].id)]]])

\* every vote with its timeframe's weight and its indicator weight
AllVotes(tfVotes) ==
  Flatten([j \in 1..Len(tfVotes) |->
             [i \in 1..Len(tfVotes[j].votes) |->
                [tf |-> tfVotes[j].tf, v |-> tfVotes[j].votes[i],
                 tfW |-> tfVotes[j].weight,
                 wInd |-> WOf(tfVotes[j].wInd, tfVotes[j].votes[i].id)]]])

Confidence(tfVotes, av, ensembleScore) ==
  LET parts == [i \in 1..Len(av) |->
                  RMul(RMul(RMul(RMul(av[i].tfW, av[i].wInd),
                                 RInt(AbsInt(av[i].v.dir))),
                            av[i].v.conf), Qual(av[i].v))]
      maxPoss == RSumSeq([j \in 1..Len(tfVotes) |-> tfVotes[j].weight])
      raw == RDiv(RSumSeq(parts), RMax(R(1, 1000000000), maxPoss))
  IN  clamp(RAdd(RMul(R(5, 10), raw), RMul(R(5, 10), RAbs(ensembleScore))),
            Zero, One)

\* the quality never raised above 0.95
QualityMutNoRaise(tfVotes, ensembleScore) ==
  IF RLe(R(4, 10), RAbs(ensembleScore)) THEN R(95, 100) ELSE R(85, 100)

Quality(tfVotes, ensembleScore) ==
  LET hi == {j \in 1..Len(tfVotes) : RLe(R(14, 10), tfVotes[j].weight)}
      hiAgree == IF hi # {}
                   THEN \A j \in hi :
                          /\ Sign(tfVotes[j].tfScore) = Sign(ensembleScore)
                          /\ RLe(R(25, 100), RAbs(tfVotes[j].tfScore))
                   ELSE FALSE
      q1 == IF RLe(R(4, 10), RAbs(ensembleScore)) THEN RMax(R(85, 100), R(95, 100))
            ELSE R(85, 100)
  IN  IF hiAgree /\ RLe(R(6, 10), RAbs(ensembleScore)) THEN One ELSE q1

\* candidates of the decided side, in timeframe order then vote order
Candidates(av, finalDir) ==
  LET stopOf(v) == IF finalDir = "buy" THEN v.stopLong ELSE v.stopShort
  IN  Filter([i \in 1..Len(av) |->
                [tf |-> av[i].tf, id |-> av[i].v.id, stop |-> stopOf(av[i].v)]],
             [i \in 1..Len(av) |-> IsNum(stopOf(av[i].v))])

Atrs(av) ==
      Filter([i \in 1..Len(av) |-> av[i].v.atr],
             [i \in 1..Len(av) |-> IsNum(av[i].v.atr)])

Average(xs) == RDiv(RSumSeq(xs), RInt(Len(xs)))

\* the floor applied only when there is no candidate
StopLossMutFloorOnlyWithoutCandidates(av, finalDir, timeframes, confirmOnClose, minStopATRMultiple, maxStopATRMultiple) ==
  LET closes0 == timeframes[1].candles.closes
      refClose == At(closes0, LastIndex(closes0, confirmOnClose))
      stopsOf(cands) == SortAsc([i \in 1..Len(cands) |-> cands[i].stop])
      stopLoss(stops, atrs) ==
        IF Len(stops) > 0 THEN Median(stops)
        ELSE IF IsNum(refClose) /\ Len(atrs) > 0
          THEN IF finalDir = "buy"
                 THEN RSub(refClose, RMul(clamp(minStopATRMultiple, R(5, 10),
                                                maxStopATRMultiple), Average(atrs)))
                 ELSE RAdd(refClose, RMul(clamp(minStopATRMultiple, R(5, 10),
                                                maxStopATRMultiple), Average(atrs)))
        ELSE Undef
  IN  stopLoss(stopsOf(Candidates(av, finalDir)), Atrs(av))

StopLoss(av, finalDir, timeframes, confirmOnClose, minStopATRMultiple, maxStopATRMultiple) ==
  LET closes0 == timeframes[1].candles.closes
      refClose == At(closes0, LastIndex(closes0, confirmOnClose))
      stopsOf(cands) == SortAsc([i \in 1..Len(cands) |-> cands[i].stop])
      medianOf(stops) == IF Len(stops) > 0 THEN Median(stops) ELSE Undef
      floored(median, minDist) ==
        IF ~IsNum(median)
          THEN IF finalDir = "buy" THEN RSub(refClose, minDist)
               ELSE RAdd(refClose, minDist)
        ELSE IF finalDir = "buy" /\ RLt(RSub(refClose, median), minDist)
          THEN RSub(refClose, minDist)
        ELSE IF finalDir = "sell" /\ RLt(RSub(median, refClose), minDist)
          THEN RAdd(refClose, minDist)
        ELSE median
      stopLoss(median, atrs) ==
        IF IsNum(refClose) /\ Len(atrs) > 0
          THEN floored(median,
                       RMul(clamp(minStopATRMultiple, R(5, 10), maxStopATRMultiple),
                            Average(atrs)))
          ELSE median
  IN  stopLoss(medianOf(stopsOf(Candidates(av, finalDir))), Atrs(av))

\* atrPct > 0 ? clamp(0.02 / Math.max(0.005, atrPct), 0.5, 1.5) : 1
VolFactor(atrPct) ==
  IF RLt(Zero, atrPct)
    THEN clamp(RDiv(R(2, 100), RMax(R(5, 1000), atrPct)), R(5, 10), R(15, 10))
    ELSE One

PositionPct(tfVotes, av, ensembleScore, conf, timeframes, confirmOnClose, basePositionPct, maxPositionPct) ==
  LET sample == Eager([j \in 1..Len(timeframes) |->
                         At(timeframes[j].candles.closes,
                            LastIndex(timeframes[j].candles.closes, confirmOnClose))])
      closesSample == Filter(sample,
                             [j \in 1..Len(timeframes) |->
                                /\ Len(timeframes[j].candles.closes) > 0
                                /\ IsNum(sample[j])])
      priceRef == IF Len(closesSample) > 0 THEN closesSample[1] ELSE Undef
      atrs == Atrs(av)
      atrPct == IF IsNum(priceRef) /\ RSign(priceRef) # 0 /\ Len(atrs) > 0
                  THEN RDiv(Average(atrs), priceRef)
                  ELSE Zero
      hi == {j \in 1..Len(tfVotes) : RLe(R(14, 10), tfVotes[j].weight)}
      agree == {j \in hi : /\ Sign(tfVotes[j].tfScore) = Sign(ensembleScore)
                           /\ RLe(R(2, 10), RAbs(tfVotes[j].tfScore))}
      hiAgree == IF hi # {} THEN R(Cardinality(agree), Cardinality(hi))
                 ELSE R(5, 10)
      volFactor == VolFactor(atrPct)
      raw == RMul(RMul(RMul(basePositionPct, conf),
                       RAdd(R(5, 10), RMul(R(5, 10), hiAgree))), volFactor)
  IN  clamp(raw, R(5, 100), maxPositionPct)

\* everything after the loop over timeframes; tfVotes is what the loop left
Aggregate(params, tfVotes, av) ==
  LET confirmOnClose == params.confirmOnClose
      buyThreshold == Default(params.buyThreshold, R(15, 100))
      sellThreshold == Default(params.sellThreshold, R(-15, 100))
      basePositionPct == Default(params.basePositionPct, R(25, 100))
      maxPositionPct == Default(params.maxPositionPct, R(5, 10))
      minStopATRMultiple == Default(params.minStopATRMultiple, R(1, 1))
      maxStopATRMultiple == Default(params.maxStopATRMultiple, R(3, 1))
      tfs == params.timeframes
      returned(ensembleScore, finalDir, conf, qual, stopLoss) ==
        [ok |-> TRUE,
         direction |-> finalDir,
         entry |-> IF finalDir # "none" THEN "triggered" ELSE "no-trigger",
         score |-> [directional |-> dirNum(finalDir), confidence |-> conf,
                    quality |-> qual],
         sizing |-> IF finalDir = "none" THEN NoSizing
                    ELSE [present |-> TRUE,
                          positionPctOfDailyLimit |->
                            PositionPct(tfVotes, av, ensembleScore, conf, tfs,
                                        confirmOnClose, basePositionPct,
                                        maxPositionPct),
                          stopLossPrice |-> stopLoss],
         weightsUsed |-> [tfWeights |-> [j \in 1..Len(tfVotes) |->
                                           [tf |-> tfVotes[j].tf,
                                            weight |-> tfVotes[j].weight]],
                          indicatorWeights |-> tfVotes[Len(tfVotes)].wInd],
         breakdown |->
           [ensembleScore |-> ensembleScore,
            tfScores |-> [j \in 1..Len(tfVotes) |->
                            [tf |-> tfVotes[j].tf, score |-> tfVotes[j].tfScore]],
            indicators |-> [i \in 1..Len(av) |->
                              [tf |-> av[i].tf, id |-> av[i].v.id,
                               dir |-> av[i].v.dir, conf |-> av[i].v.conf,
                               qual |-> Qual(av[i].v), wInd |-> av[i].wInd]],
            stopBlend |-> IF finalDir = "none" THEN NoStopBlend
                          ELSE [present |-> TRUE, chosen |-> stopLoss,
                                candidates |-> Candidates(av, finalDir)]]]
      decided(ensembleScore, finalDir) ==
        returned(ensembleScore, finalDir,
                 Confidence(tfVotes, av, ensembleScore),
                 Quality(tfVotes, ensembleScore),
                 StopLoss(av, finalDir, tfs, confirmOnClose,
                          minStopATRMultiple, maxStopATRMultiple))
      scored(ensembleScore) ==
        decided(ensembleScore, FinalDir(ensembleScore, buyThreshold, sellThreshold))
  IN  scored(EnsembleScore(tfVotes))

\* the loop over timeframes
TfVotes(base, p, params) ==
  Eager([j \in 1..Len(params.timeframes) |->
           TfVote(base, p, params.timeframes[j], params.confirmOnClose)])

DecisionResult(base, p, params) ==
  IF params.missing \/ Len(params.timeframes) = 0 THEN EmptyResult
  ELSE LET aggregated(tfVotes) == Aggregate(params, tfVotes, AllVotes(tfVotes))
       IN  aggregated(TfVotes(base, p, params))

(***************************************************************************)
(* The engine as a state machine.  indicatorBase and perf are the fields   *)
(* of the instance; out records the most recent call, its arguments and    *)
(* what it returned; nSets counts the setBaselineWeights calls.            *)
(***************************************************************************)
Init ==
  /\ indicatorBase = DefaultBase
  /\ perf = <<>>
  /\ out = [op |-> "new"]
  /\ nSets = 0

RECURSIVE TotalN(_, _)
TotalN(p, S) ==
  IF S = {} THEN 0
  ELSE LET k == CHOOSE x \in S : TRUE IN p[k].n + TotalN(p, S \ {k})

UpdateWithOutcome(outcomePct, usedIndicators, bound) ==
  /\ TotalN(perf, DOMAIN perf) + Len(usedIndicators) <= bound
  /\ perf' = updateWithOutcome(perf, outcomePct, usedIndicators)
  /\ out' = [op |-> "updateWithOutcome", outcomePct |-> outcomePct,
             usedIndicators |-> usedIndicators]
  /\ UNCHANGED <<indicatorBase, nSets>>

\* a baseline replacement that also starts the records afresh
SetBaselineWeightsMutClearsPerf(next) ==
  /\ nSets < MaxSets
  /\ indicatorBase' = setBaselineWeights(indicatorBase, next)
  /\ nSets' = nSets + 1
  /\ out' = [op |-> "setBaselineWeights", next |-> next]
  /\ perf' = <<>>

SetBaselineWeights(next) ==
  /\ nSets < MaxSets
  /\ indicatorBase' = setBaselineWeights(indicatorBase, next)
  /\ nSets' = nSets + 1
  /\ out' = [op |-> "setBaselineWeights", next |-> next]
  /\ UNCHANGED perf

GetBaselineWeights ==
  /\ out' = [op |-> "getBaselineWeights", result |-> indicatorBase]
  /\ UNCHANGED <<indicatorBase, perf, nSets>>

GetPerformanceDB ==
  /\ out' = [op |-> "getPerformanceDB", result |-> perf]
  /\ UNCHANGED <<indicatorBase, perf, nSets>>

(***************************************************************************)
(* The single-timeframe aggregator, a function outside the class.          *)
(***************************************************************************)
ensembleDecision(decisions, weights, buyThreshold, sellThreshold) ==
  LET valid == SelectSeq(decisions, LAMBDA d : d.health.isValid)
      w(d) == IF d.id \in DOMAIN weights THEN weights[d.id] ELSE Zero
      contrib(d) == RMul(RMul(RInt(d.score.directional), d.score.confidence),
                         Default(d.score.quality, One))
      returned(finalScore, band) ==
        [finalScore |-> finalScore,
         direction |-> IF RLt(buyThreshold, finalScore) THEN "buy"
                       ELSE IF RLt(finalScore, sellThreshold) THEN "sell"
                       ELSE "none",
         band |-> band,
         thresholds |-> [buyThreshold |-> buyThreshold,
                         sellThreshold |-> sellThreshold,
                         strongBuy |-> R(3, 10), strongSell |-> R(-3, 10)],
         explanation |->
           CASE band = "strong_buy" -> "Consenso forte de compra entre os indicadores."
             [] band = "buy" -> "Viés comprador; sinais majoritariamente positivos."
             [] band = "sell" -> "Viés vendedor; sinais majoritariamente negativos."
             [] band = "strong_sell" -> "Consenso forte de venda entre os indicadores."
             [] OTHER -> "Sinais mistos/insuficientes; evitar gatilho."]
      banded(finalScore) ==
        returned(finalScore,
                 IF RLe(R(3, 10), finalScore) THEN "strong_buy"
                 ELSE IF RLe(R(15, 100), finalScore) THEN "buy"
                 ELSE IF RLe(finalScore, R(-3, 10)) THEN "strong_sell"
                 ELSE IF RLe(finalScore, R(-15, 100)) THEN "sell"
                 ELSE "neutral")
      divided(weightedSum, weightTotal) ==
        banded(IF RSign(weightTotal) # 0 THEN RDiv(weightedSum, weightTotal) ELSE Zero)
  IN  divided(RSumSeq([i \in 1..Len(valid) |-> RMul(w(valid[i]), contrib(valid[i]))]),
              RSumSeq([i \in 1..Len(valid) |-> w(valid[i])]))

\* a call of ensembleDecision; opts holds the thresholds the caller gave.
\* The function keeps nothing between calls, so a call after another one
\* reaches only what it reaches from the state before: the guard on out.op
\* removes those transitions and no reachable state.
EnsembleDecision(decisions, weights, opts) ==
  /\ out.op # "ensembleDecision"
  /\ out' = [op |-> "ensembleDecision", decisions |-> decisions,
             weights |-> weights, opts |-> opts,
             result |-> ensembleDecision(decisions, weights,
                                         Default(opts.buyThreshold, R(15, 100)),
                                         Default(opts.sellThreshold, R(-15, 100)))]
  /\ UNCHANGED <<indicatorBase, perf, nSets>>

\* a decision that puts the baseline back to the constructed one
DecisionMutResetsBaseline(params) ==
  /\ out.op # "decision"
  /\ out' = [op |-> "decision", params |-> params,
             result |-> DecisionResult(indicatorBase, perf, params)]
  /\ indicatorBase' = DefaultBase
  /\ UNCHANGED <<perf, nSets>>

\* decision() reads the fields and writes none, so a decision taken right
\* after another one reaches the state it reaches from the state before:
\* the guard on out.op removes those transitions and no reachable state.
Decision(params) ==
  /\ out.op # "decision"
  /\ out' = [op |-> "decision", params |-> params,
             result |-> DecisionResult(indicatorBase, perf, params)]
  /\ UNCHANGED <<indicatorBase, perf, nSets>>

(***************************************************************************)
(* Inputs                                                                  *)
(***************************************************************************)
Throw ==
  [kind |-> "throw", entrySignal |-> "none", confidence |-> Undef,
   quality |-> Undef, stopLong |-> Undef, stopShort |-> Undef, lastATR |-> Undef]

Fail == [Throw EXCEPT !.kind = "fail"]

Ok(sig, conf, qual) ==
  [kind |-> "ok", entrySignal |-> sig, confidence |-> conf, quality |-> qual,
   stopLong |-> Undef, stopShort |-> Undef, lastATR |-> Undef]

OkEma(sig, conf, qual, stopLong, stopShort, atr) ==
  [kind |-> "ok", entrySignal |-> sig, confidence |-> conf, quality |-> qual,
   stopLong |-> stopLong, stopShort |-> stopShort, lastATR |-> atr]

All(r) == [k \in IndicatorIds |-> r]

Params(tfs) ==
  [missing |-> FALSE, timeframes |-> tfs, confirmOnClose |-> TRUE,
   buyThreshold |-> Undef, sellThreshold |-> Undef,
   basePositionPct |-> Undef, maxPositionPct |-> Undef,
   minStopATRMultiple |-> Undef, maxStopATRMultiple |-> Undef]

L5m == <<"5", "m">>
L15m == <<"1", "5", "m">>
L30m == <<"3", "0", "m">>
L1h == <<"1", "h">>
L4h == <<"4", "h">>
L1D == <<"1", "D">>
Ldaily == <<"d", "a", "i", "l", "y">>

TFLabels == {L5m, L15m, L30m, L1h, L4h, L1D, Ldaily}

Closes3 == <<RInt(100), RInt(102), RInt(101)>>

TF(label, weight, res) ==
  [label |-> label, weight |-> weight, candles |-> [closes |-> Closes3],
   res |-> res]

\* adx buys with conviction 3/4, bollinger sells with 1/4, the others
\* abstain: adx and bollinger keep equal weights under both tilts, so the
\* timeframe scores +1/2
ResUp ==
  [All(Ok("none", R(1, 2), One)) EXCEPT
     !["adx"] = Ok("long", R(3, 4), One),
     !["bollinger"] = Ok("short", R(1, 4), One),
     !["ema"] = OkEma("none", R(1, 2), One, RInt(99), RInt(104), RInt(2))]

\* the mirror image: the timeframe scores -1/2
ResDown ==
  [ResUp EXCEPT !["adx"] = Ok("short", R(3, 4), One),
                !["bollinger"] = Ok("long", R(1, 4), One)]

\* nobody fires: the timeframe scores 0
ResFlat ==
  [ResUp EXCEPT !["adx"] = Ok("none", R(3, 4), One),
                !["bollinger"] = Ok("none", R(1, 4), One)]

\* seven of the nine fire, with different convictions and qualities; vwap
\* reports no quality
ResMixed ==
  [ema |-> OkEma("long", R(1, 2), R(9, 10), RInt(99), RInt(104), RInt(2)),
   macd |-> Ok("short", R(1, 4), One),
   rsi |-> Ok("long", Undef, Undef),
   ichimoku |-> Ok("none", R(1, 2), One),
   alligator |-> Ok("long", R(3, 4), R(1, 2)),
   vwap |-> Ok("short", R(1, 2), Undef),
   bollinger |-> Ok("none", R(1, 4), One),
   adx |-> Ok("long", One, One),
   volume |-> Ok("short", R(3, 4), One)]

\* the calculations of S replaced by r
Replace(res, S, r) == [k \in IndicatorIds |-> IF k \in S THEN r ELSE res[k]]

\* one timeframe; every set of evaluators throws, every set of calculations
\* fails, and three mixtures of both
VoteParams ==
  {Params(<<TF(L5m, Undef, Replace(ResMixed, S, r))>>) :
     S \in SUBSET IndicatorIds, r \in {Throw, Fail}}
  \cup {Params(<<TF(L1h, Undef, Replace(Replace(ResMixed, {"rsi", "adx"}, Fail),
                                        S, Throw))>>) :
          S \in {{"ema"}, {"macd", "volume"}, IndicatorIds \ {"rsi"}}}

\* timeframes for the cross-timeframe aggregation: every row of the label
\* table, and explicit weights that are zero, negative and positive
TFInputs ==
  {TF(L5m, Undef, ResDown), TF(L1D, Undef, ResUp), TF(Ldaily, Undef, ResUp),
   TF(L4h, Undef, ResFlat), TF(L1h, Undef, ResDown), TF(L30m, Undef, ResUp),
   TF(L15m, Undef, ResUp), TF(L5m, RInt(0), ResUp), TF(L1h, RInt(-1), ResDown)}

RECURSIVE SeqsUpTo(_, _)
SeqsUpTo(S, n) ==
  IF n = 0 THEN {<<>>}
  ELSE LET shorter == SeqsUpTo(S, n - 1)
       IN  shorter \cup {Append(q, x) : q \in {t \in shorter : Len(t) = n - 1}, x \in S}

\* buyThreshold and sellThreshold: the defaults, and two pairs that the
\* scores of TFInputs meet exactly
Thresholds ==
  {<<Undef, Undef>>, <<R(1, 2), R(-1, 2)>>, <<R(1, 6), R(-1, 6)>>}

TFParams ==
  {[Params(tfs) EXCEPT !.buyThreshold = th[1], !.sellThreshold = th[2]] :
     tfs \in SeqsUpTo(TFInputs, MaxTF) \ {<<>>}, th \in Thresholds}

BaseInputs ==
  {("ema" :> RInt(-2)),
   ("volume" :> RInt(0)),
   ("custom" :> R(1, 2)),
   ("ema" :> Undef) @@ ("rsi" :> R(1, 4)),
   [k \in IndicatorIds |-> RInt(0)]}

Outcomes == {R(-1, 1), R(1, 10), R(3, 1)}

Lists == {<<"rsi">>, <<"ema", "custom">>}

MainParams ==
  {Params(<<>>), [Params(<<>>) EXCEPT !.missing = TRUE],
   Params(<<TF(L1D, Undef, ResUp)>>)}

\* a loss, a scratch, a small win, a win that brings the edge EWMA close to
\* its clamp, and one far beyond the clamp
DeepOutcomes == {R(-1, 1), R(0, 1), R(1, 10), R(37, 10), R(40, 1)}

DeepLists == {<<"rsi">>, <<"rsi", "rsi">>}

\* closes of the stop-loss inputs: the last closed bar is at 120
StopCloses == <<RInt(118), RInt(120), RInt(119)>>

\* what the EMA calculation reports as <<stopLong, stopShort, lastATR>>:
\* four with stops on both sides of the close, one without highs and lows
StopData ==
  {<<RInt(99), RInt(141), RInt(12)>>, <<RInt(100), RInt(140), RInt(12)>>,
   <<RInt(105), RInt(135), RInt(12)>>, <<RInt(110), RInt(130), RInt(12)>>,
   <<Undef, Undef, Undef>>}

\* adx alone fires, in the direction sig; ema abstains and reports d
ResStop(sig, d) ==
  [All(Ok("none", R(1, 2), One)) EXCEPT
     !["adx"] = Ok(sig, R(3, 4), One),
     !["ema"] = OkEma("none", R(1, 2), One, d[1], d[2], d[3])]

StopTF(sig, d) ==
  [TF(L5m, Undef, ResStop(sig, d)) EXCEPT !.candles = [closes |-> StopCloses]]

\* every order of every choice of different reports
StopParams ==
  {Params([j \in 1..Len(ds) |-> StopTF(sig, ds[j])]) :
     ds \in {t \in SeqsUpTo(StopData, MaxStopTF) :
               t # <<>> /\ \A i, j \in 1..Len(t) : i # j => t[i] # t[j]},
     sig \in {"long", "short"}}

\* timeframes for stop-loss floor, sizing and quality: a strong buy on 5m
\* with far stops, a daily scoring +1/2 whose EMA reports an ATR and no
\* stops, a strong sell on 1h with stops close to the price, and a 4h on
\* which nobody fires and the EMA reports nothing
SizingTFs ==
  {StopTF("long", <<RInt(99), RInt(141), RInt(12)>>),
   [StopTF("long", <<Undef, Undef, Undef>>) EXCEPT
      !.label = L1D,
      !.res = [ResUp EXCEPT !["ema"] = OkEma("none", R(1, 2), One,
                                             Undef, Undef, RInt(30))]],
   [StopTF("short", <<RInt(119), RInt(121), R(1, 2)>>) EXCEPT !.label = L1h],
   [StopTF("none", <<Undef, Undef, Undef>>) EXCEPT !.label = L4h]}

\* <<minStopATRMultiple, maxStopATRMultiple>>: the defaults, a minimum below
\* 0.5, a minimum above the maximum, and a maximum below 0.5
StopMultiples ==
  {<<Undef, Undef>>, <<R(1, 4), Undef>>, <<RInt(5), Undef>>, <<RInt(1), R(1, 4)>>}

\* <<basePositionPct, maxPositionPct>>: the defaults, a cap below 0.05, a
\* base so small that the product is below 0.05, and a base above the cap
PositionPcts ==
  {<<Undef, Undef>>, <<RInt(1), R(1, 100)>>, <<R(1, 100), R(1, 2)>>,
   <<RInt(2), RInt(1)>>}

SizingParams ==
  {[Params(tfs) EXCEPT !.minStopATRMultiple = m[1], !.maxStopATRMultiple = m[2],
                       !.basePositionPct = q[1], !.maxPositionPct = q[2]] :
     tfs \in SeqsUpTo(SizingTFs, MaxTF) \ {<<>>},
     m \in StopMultiples, q \in PositionPcts}

\* closes of a timeframe that trades far from StopCloses
RefCloses == <<RInt(200), RInt(210), RInt(205)>>

\* a 5m and a daily timeframe, each at either price, whose EMA reports an
\* ATR of 3 and no stop, and an hourly timeframe without candles on which
\* every calculation fails
RefTFs ==
  {[StopTF(sig, <<Undef, Undef, RInt(3)>>) EXCEPT !.label = l, !.candles = [closes |-> c]] :
     sig \in {"long", "short"}, l \in {L5m, L1D}, c \in {StopCloses, RefCloses}}
  \cup {[TF(L1h, Undef, All(Fail)) EXCEPT !.candles = [closes |-> <<>>]]}

\* one timeframe or two of different labels, in both orders
RefParams ==
  {[Params(tfs) EXCEPT !.confirmOnClose = c] :
     tfs \in {t \in SeqsUpTo(RefTFs, 2) :
                t # <<>> /\ \A i, j \in 1..Len(t) : i # j => t[i].label # t[j].label},
     c \in BOOLEAN}

\* one timeframe on which seven indicators fire, low and high, one on which
\* none fires, one on which every evaluator throws, and a call with a low and
\* a high timeframe
BaseParams ==
  {Params(<<TF(L5m, Undef, ResMixed)>>), Params(<<TF(L1D, Undef, ResMixed)>>),
   Params(<<TF(L1h, Undef, ResFlat)>>), Params(<<TF(L5m, Undef, All(Throw))>>),
   Params(<<TF(L5m, Undef, ResMixed), TF(L1D, Undef, ResMixed)>>)}

\* decisions of evaluators: buyers of conviction 0.15, 0.3 and 1, a seller of
\* conviction 0.15 that reports no quality, one that abstains, one that is
\* not valid, and one whose id has no weight
EnsDecisions ==
  {[id |-> d[1], score |-> [directional |-> d[2], confidence |-> d[3], quality |-> d[4]],
    health |-> [isValid |-> d[5]]] :
     d \in {<<"ema", 1, R(15, 100), One, TRUE>>, <<"macd", 1, R(3, 10), One, TRUE>>,
            <<"adx", -1, R(15, 100), Undef, TRUE>>, <<"rsi", 0, One, One, TRUE>>,
            <<"vwap", 1, One, One, FALSE>>, <<"custom", 1, One, One, TRUE>>,
            <<"volume", 1, One, R(1, 2), TRUE>>}}

\* equal weights, unequal weights, and no weight for anyone
EnsWeights ==
  {[k \in IndicatorIds |-> One],
   [k \in IndicatorIds |-> IF k \in {"rsi", "volume"} THEN RInt(3) ELSE R(1, 2)],
   <<>>}

EnsOpts ==
  {[buyThreshold |-> Undef, sellThreshold |-> Undef],
   [buyThreshold |-> R(1, 4), sellThreshold |-> R(-1, 4)]}

\* a 5m timeframe at a price of 120 whose EMA reports an ATR of 0, of 0.1,
\* 0.6, 1.2, 2.4, 4.8 or 12 (0.5%, 1%, 2%, 4%, 10% of the price), or none
VolTFs ==
  {StopTF(sig, <<Undef, Undef, atr>>) :
     sig \in {"long", "short"},
     atr \in {RInt(0), R(1, 10), R(6, 10), R(12, 10), R(24, 10), R(48, 10), RInt(12), Undef}}

\* id lists: empty, a known id, a known and an unknown id, one id twice
UpdateLists == {<<>>, <<"rsi">>, <<"ema", "custom">>, <<"macd", "macd">>}

(***************************************************************************)
(* Specifications                                                          *)
(***************************************************************************)
\* the engine with all its operations
Next ==
  \/ \E next \in BaseInputs : SetBaselineWeights(next)
  \/ \E o \in Outcomes, ids \in Lists : UpdateWithOutcome(o, ids, MaxUpdates)
  \/ \E params \in MainParams : Decision(params)
  \/ GetBaselineWeights
  \/ GetPerformanceDB

Spec == Init /\ [][Next]_vars

\* the learner alone, followed further than the full machine allows
NextPerf ==
  \E o \in DeepOutcomes, ids \in DeepLists : UpdateWithOutcome(o, ids, MaxN)

SpecPerf == Init /\ [][NextPerf]_vars

\* one timeframe, the nine evaluators throwing and failing in every combination
NextVotes == \E params \in VoteParams : Decision(params)

SpecVotes == Init /\ [][NextVotes]_vars

\* several timeframes, labels, explicit weights and thresholds
NextTF == \E params \in TFParams : Decision(params)

SpecTF == Init /\ [][NextTF]_vars

\* stop candidates from several timeframes, gathered in every order
NextStops == \E params \in StopParams : Decision(params)

SpecStops == Init /\ [][NextStops]_vars

\* outcome feedback for several ids, known and unknown
NextUpdates ==
  \E o \in DeepOutcomes, ids \in UpdateLists : UpdateWithOutcome(o, ids, MaxUpdates + 1)

SpecUpdates == Init /\ [][NextUpdates]_vars

\* the parameters of the stop-loss floor and of the sizing
NextSizing == \E params \in SizingParams : Decision(params)

SpecSizing == Init /\ [][NextSizing]_vars

\* decisions of many voters under baselines that were set and records that
\* were updated by wins of 3 percent
NextBase ==
  \/ \E next \in BaseInputs : SetBaselineWeights(next)
  \/ \E ids \in Lists : UpdateWithOutcome(R(3, 1), ids, MaxUpdates)
  \/ \E params \in BaseParams : Decision(params)

SpecBase == Init /\ [][NextBase]_vars

\* calls of the single-timeframe aggregator
NextEnsemble ==
  \E decisions \in SeqsUpTo(EnsDecisions, MaxDecisions), weights \in EnsWeights, opts \in EnsOpts : EnsembleDecision(decisions, weights, opts)

SpecEnsemble == Init /\ [][NextEnsemble]_vars

\* decisions under different volatilities
NextVol == \E params \in {Params(tfs) : tfs \in SeqsUpTo(VolTFs, 2) \ {<<>>}} : Decision(params)

SpecVol == Init /\ [][NextVol]_vars

\* all the operations again, with id lists that are empty and that repeat an id
NextRecords ==
  \/ \E next \in BaseInputs : SetBaselineWeights(next)
  \/ \E o \in {R(-1, 1), R(3, 1)}, ids \in UpdateLists : UpdateWithOutcome(o, ids, MaxUpdates)
  \/ \E params \in MainParams : Decision(params)
  \/ GetBaselineWeights
  \/ GetPerformanceDB

SpecRecords == Init /\ [][NextRecords]_vars

\* decisions on timeframes that trade at different prices
NextRef == \E params \in RefParams : Decision(params)

SpecRef == Init /\ [][NextRef]_vars

(***************************************************************************)
(* Properties                                                              *)
(***************************************************************************)
EffectiveWeights(label) == buildIndicatorWeightsForTF(indicatorBase, perf, label)

\* C1: in every reachable engine state and for every timeframe label, the
\* effective indicator weights of the timeframe sum to 1.
C1_WeightsSumToOne ==
  \A label \in TFLabels : REq(SumValues(EffectiveWeights(label)), One)

\* C2: in every reachable engine state and for every timeframe label, each
\* effective indicator weight is at least the floor 0.02.
C2_WeightsAtLeastFloor ==
  \A label \in TFLabels :
    \A k \in DOMAIN EffectiveWeights(label).v :
      RLe(R(2, 100), W(EffectiveWeights(label), k))

\* C3: after any sequence of updateWithOutcome calls every indicator's
\* multiplier lies in [0.65, 1.35] and every win-rate EWMA lies in [0, 1].
C3_MultiplierBounds ==
  \A id \in DOMAIN perf :
    /\ RLe(R(65, 100), perfMultiplier(perf, id))
    /\ RLe(perfMultiplier(perf, id), R(135, 100))
    /\ RLe(Zero, perf[id].ewmaWin)
    /\ RLe(perf[id].ewmaWin, One)

\* an edge EWMA beyond the clamp at 1.5 and one below the clamp at -1.5 are
\* both behind: the record has seen the largest win and then losses
C3_Witness ==
  /\ "rsi" \in DOMAIN perf
  /\ perf["rsi"].n >= 3
  /\ RLt(R(15, 10), perf["rsi"].ewmaEdge)
  /\ RLt(perfMultiplier(perf, "rsi"), R(135, 100))
  /\ RLt(out.outcomePct, Zero)

Range(s) == {s[i] : i \in DOMAIN s}

EdgeOf(p, id) == IF id \in DOMAIN p THEN p[id].ewmaEdge ELSE Zero
WinOf(p, id) == IF id \in DOMAIN p THEN p[id].ewmaWin ELSE R(5, 10)

PositiveUpdate ==
  out'.op = "updateWithOutcome" /\ RLt(Zero, out'.outcomePct) /\ perf' # perf

\* C4 as stated: every update with a positive outcome that names X strictly
\* increases X's multiplier, which never exceeds 1.35.
C4_Original ==
  [][PositiveUpdate =>
       \A id \in Range(out'.usedIndicators) :
         /\ RLt(perfMultiplier(perf, id), perfMultiplier(perf', id))
         /\ RLe(perfMultiplier(perf', id), R(135, 100))]_vars

\* C4, amended: an update with a positive outcome that is not below X's
\* current edge EWMA (0 when X has no record yet) strictly increases X's
\* multiplier; after any update with a positive outcome the multiplier is
\* at most 1.35.
C4_Amended ==
  [][PositiveUpdate =>
       \A id \in Range(out'.usedIndicators) :
         /\ RLe(EdgeOf(perf, id), out'.outcomePct)
              => RLt(perfMultiplier(perf, id), perfMultiplier(perf', id))
         /\ RLe(perfMultiplier(perf', id), R(135, 100))]_vars

\* a small win recorded on a record that has history; the edge EWMA after
\* the update is not above the outcome exactly when it was not before
C4_Witness ==
  /\ out.op = "updateWithOutcome"
  /\ REq(out.outcomePct, R(1, 10))
  /\ "rsi" \in DOMAIN perf
  /\ perf["rsi"].n >= 3
  /\ RLe(perf["rsi"].ewmaEdge, out.outcomePct)
  /\ RLt(One, perfMultiplier(perf, "rsi"))

\* C5: an update with a positive outcome that names X strictly increases
\* X's win-rate EWMA, which stays at most 1; an update with a zero or
\* negative outcome strictly decreases a win-rate EWMA that is above 0.
C5_WinRateMoves ==
  [][(out'.op = "updateWithOutcome" /\ perf' # perf) =>
       \A id \in Range(out'.usedIndicators) :
         IF RLt(Zero, out'.outcomePct)
           THEN /\ RLt(WinOf(perf, id), WinOf(perf', id))
                /\ RLe(WinOf(perf', id), One)
           ELSE RLt(Zero, WinOf(perf, id))
                  => RLt(WinOf(perf', id), WinOf(perf, id))]_vars

\* a scratch (outcome 0) recorded after wins
C5_Witness ==
  /\ out.op = "updateWithOutcome"
  /\ REq(out.outcomePct, Zero)
  /\ "rsi" \in DOMAIN perf
  /\ perf["rsi"].n >= 3
  /\ RLt(R(5, 10), perf["rsi"].ewmaWin)

NonEmptyDecision ==
  out.op = "decision" /\ ~out.params.missing /\ Len(out.params.timeframes) > 0

EmptyDecision ==
  out.op = "decision" /\ (out.params.missing \/ Len(out.params.timeframes) = 0)

\* C6: for thresholds with sellThreshold < buyThreshold, a score strictly
\* between them gives none, a score at or above buyThreshold gives buy and
\* a score at or below sellThreshold gives sell.
C6_InclusiveThresholds ==
  NonEmptyDecision =>
    LET s == out.result.breakdown.ensembleScore
        buy == IF IsNum(out.params.buyThreshold)
                 THEN out.params.buyThreshold ELSE R(15, 100)
        sell == IF IsNum(out.params.sellThreshold)
                  THEN out.params.sellThreshold ELSE R(-15, 100)
    IN  RLt(sell, buy) =>
          /\ (RLt(sell, s) /\ RLt(s, buy)) => out.result.direction = "none"
          /\ RLe(buy, s) => out.result.direction = "buy"
          /\ RLe(s, sell) => out.result.direction = "sell"

\* a score that meets a supplied buyThreshold exactly
C6_Witness ==
  /\ NonEmptyDecision
  /\ IsNum(out.params.buyThreshold)
  /\ IsNum(out.params.sellThreshold)
  /\ RLt(out.params.sellThreshold, out.params.buyThreshold)
  /\ REq(out.result.breakdown.ensembleScore, out.params.buyThreshold)
  /\ out.result.direction = "buy"

\* the evaluators of timeframe j that did not throw
Voters(j) ==
  {k \in IndicatorIds : out.params.timeframes[j].res[k].kind # "throw"}

RECURSIVE VotesBefore(_)
VotesBefore(j) == IF j <= 1 THEN 0 ELSE VotesBefore(j - 1) + Cardinality(Voters(j - 1))

\* the reported votes of timeframe j
Entries(j) ==
  SubSeq(out.result.breakdown.indicators,
         VotesBefore(j) + 1, VotesBefore(j) + Cardinality(Voters(j)))

Signed(e) == RMul(RMul(RMul(RInt(e.dir), e.conf), e.qual), e.wInd)
Unsigned(e) == RMul(RMul(RMul(RInt(AbsInt(e.dir)), e.conf), e.qual), e.wInd)

\* the aggregated score of a list of votes, 0 when nothing fired
Ratio(es) ==
  LET num == RSumSeq([i \in 1..Len(es) |-> Signed(es[i])])
      den == RSumSeq([i \in 1..Len(es) |-> Unsigned(es[i])])
  IN  IF RSign(den) = 0 THEN Zero ELSE RDiv(num, den)

RECURSIVE Keep(_, _)
Keep(s, S) ==
  IF s = <<>> THEN <<>>
  ELSE (IF Head(s) \in S THEN <<Head(s)>> ELSE <<>>) \o Keep(Tail(s), S)

\* C7: a vote whose evaluator reported isValid:false adds 0 to the numerator
\* and 0 to the denominator of its timeframe's score, and the score equals
\* the score of the remaining votes alone.
C7_InvalidVotesCountZero ==
  NonEmptyDecision =>
    \A j \in 1..Len(out.params.timeframes) :
      LET es == Entries(j)
          res == out.params.timeframes[j].res
          invalid == {i \in 1..Len(es) : res[es[i].id].kind = "fail"}
          rest == Keep([i \in 1..Len(es) |-> i], (1..Len(es)) \ invalid)
      IN  /\ \A i \in invalid : /\ REq(Signed(es[i]), Zero)
                                /\ REq(Unsigned(es[i]), Zero)
          /\ REq(out.result.breakdown.tfScores[j].score,
                 Ratio([i \in 1..Len(rest) |-> es[rest[i]]]))

\* RSI's failed calculation is voted with confidence 1 and quality 1, next to
\* votes that fire
C7_Witness ==
  /\ NonEmptyDecision
  /\ out.params.timeframes[1].res["rsi"].kind = "fail"
  /\ \E i \in 1..Len(Entries(1)) :
       /\ Entries(1)[i].id = "rsi"
       /\ REq(Entries(1)[i].conf, One)
       /\ REq(Entries(1)[i].qual, One)
  /\ ~REq(out.result.breakdown.tfScores[1].score, Zero)

\* C8: whatever set of evaluators throws, decision() returns; the throwers
\* cast no vote, and the timeframe's score is the aggregate of the votes of
\* the evaluators that did not throw.
C8_ThrowersCastNoVote ==
  NonEmptyDecision =>
    /\ out.result.ok
    /\ Len(out.result.breakdown.indicators)
         = VotesBefore(Len(out.params.timeframes) + 1)
    /\ \A j \in 1..Len(out.params.timeframes) :
         /\ [i \in 1..Len(Entries(j)) |-> Entries(j)[i].id] = Keep(EvalOrder, Voters(j))
         /\ REq(out.result.breakdown.tfScores[j].score, Ratio(Entries(j)))

\* some evaluators threw and the others produced a score
C8_Witness ==
  /\ NonEmptyDecision
  /\ Cardinality(Voters(1)) \in 1..3
  /\ \E k \in Voters(1) : out.params.timeframes[1].res[k].kind = "ok"
  /\ ~REq(out.result.breakdown.tfScores[1].score, Zero)

\* C9: with an empty or missing timeframes list decision() returns the
\* neutral result, in every engine state: direction none, entry no-trigger,
\* confidence 0, ensemble score 0, no sizing, and empty tfScores,
\* indicators, tfWeights and indicatorWeights.
C9_EmptyInput ==
  EmptyDecision =>
    /\ out.result.ok
    /\ out.result.direction = "none"
    /\ out.result.entry = "no-trigger"
    /\ REq(out.result.score.confidence, Zero)
    /\ REq(out.result.breakdown.ensembleScore, Zero)
    /\ ~out.result.sizing.present
    /\ out.result.breakdown.tfScores = <<>>
    /\ out.result.breakdown.indicators = <<>>
    /\ out.result.weightsUsed.tfWeights = <<>>
    /\ out.result.weightsUsed.indicatorWeights = <<>>

\* a missing list, on an engine whose baseline was replaced and that learned
C9_Witness ==
  /\ EmptyDecision
  /\ out.params.missing
  /\ nSets > 0
  /\ perf # <<>>
  /\ indicatorBase # DefaultBase

\* the label table as the documentation gives it
TableWeight(label) ==
  IF label \in {L1D, Ldaily} THEN R(2, 1)
  ELSE IF label = L4h THEN R(16, 10)
  ELSE IF label = L1h THEN R(14, 10)
  ELSE IF label = L30m THEN R(12, 10)
  ELSE IF label = L15m THEN R(11, 10)
  ELSE R(1, 1)

GivenWeight(j) ==
  IF IsNum(out.params.timeframes[j].weight)
    THEN out.params.timeframes[j].weight
    ELSE TableWeight(out.params.timeframes[j].label)

ScoreOf(j) == out.result.breakdown.tfScores[j].score

TotalWeight == RSumSeq([j \in 1..Len(out.params.timeframes) |-> GivenWeight(j)])

WeightedSum ==
  RSumSeq([j \in 1..Len(out.params.timeframes) |-> RMul(GivenWeight(j), ScoreOf(j))])

WeightsAsGiven ==
  \A j \in 1..Len(out.params.timeframes) :
    REq(out.result.weightsUsed.tfWeights[j].weight, GivenWeight(j))

EqualScores ==
  \A j \in 1..Len(out.params.timeframes) : REq(ScoreOf(j), ScoreOf(1))

\* -0.5 on 5m and +0.5 on daily, weights from the table
Conflict ==
  /\ Len(out.params.timeframes) = 2
  /\ out.params.timeframes[1].label = L5m
  /\ out.params.timeframes[2].label \in {L1D, Ldaily}
  /\ ~IsNum(out.params.timeframes[1].weight)
  /\ ~IsNum(out.params.timeframes[2].weight)
  /\ REq(ScoreOf(1), R(-1, 2))
  /\ REq(ScoreOf(2), R(1, 2))

DefaultThresholds ==
  ~IsNum(out.params.buyThreshold) /\ ~IsNum(out.params.sellThreshold)

ConflictGives(direction) ==
  Conflict =>
    /\ REq(out.result.breakdown.ensembleScore, R(1, 6))
    /\ DefaultThresholds => out.result.direction = direction

\* C10 as stated: the ensemble score is the weighted sum of the timeframe
\* scores over the sum of the weights (explicit, else from the label table),
\* so equal timeframe scores s give s, and -0.5 on 5m with +0.5 on daily
\* gives 1/6 and direction none.
C10_Original ==
  NonEmptyDecision =>
    /\ WeightsAsGiven
    /\ RSign(TotalWeight) # 0
         => REq(out.result.breakdown.ensembleScore, RDiv(WeightedSum, TotalWeight))
    /\ EqualScores => REq(out.result.breakdown.ensembleScore, ScoreOf(1))
    /\ ConflictGives("none")

\* C10, amended: the divisor is the sum of the weights when that sum is not
\* zero and 1 when it is; equal timeframe scores s give s when the weights
\* do not sum to zero; the conflict scenario gives 1/6, which is above the
\* default buyThreshold 0.15, and direction buy.
C10_Amended ==
  NonEmptyDecision =>
    /\ WeightsAsGiven
    /\ REq(out.result.breakdown.ensembleScore,
           RDiv(WeightedSum, IF RSign(TotalWeight) = 0 THEN One ELSE TotalWeight))
    /\ (EqualScores /\ RSign(TotalWeight) # 0)
         => REq(out.result.breakdown.ensembleScore, ScoreOf(1))
    /\ ConflictGives("buy")

\* the conflict scenario under the default thresholds
C10_Witness ==
  /\ NonEmptyDecision
  /\ Conflict
  /\ DefaultThresholds
  /\ REq(out.result.breakdown.ensembleScore, R(1, 6))
  /\ out.result.direction = "buy"

\* the decided side's stops that the calculations of the call reported
StopInputs ==
  LET tfs == out.params.timeframes
      stopOf(j) == IF out.result.direction = "buy" THEN tfs[j].res["ema"].stopLong
                   ELSE tfs[j].res["ema"].stopShort
  IN  [j \in {i \in 1..Len(tfs) : IsNum(stopOf(i))} |-> stopOf(j)]

AtrInputs ==
  LET tfs == out.params.timeframes
  IN  [j \in {i \in 1..Len(tfs) : IsNum(tfs[i].res["ema"].lastATR)} |->
         tfs[j].res["ema"].lastATR]

\* the k-th smallest value of f, counting repetitions
Kth(f, k) ==
  f[CHOOSE j \in DOMAIN f :
      /\ Cardinality({i \in DOMAIN f : RLt(f[i], f[j])}) < k
      /\ k <= Cardinality({i \in DOMAIN f : RLe(f[i], f[j])})]

MedianOfInputs(f) ==
  LET n == Cardinality(DOMAIN f)
  IN  IF n % 2 = 1 THEN Kth(f, (n \div 2) + 1)
      ELSE RDiv(RAdd(Kth(f, n \div 2), Kth(f, (n \div 2) + 1)), RInt(2))

RECURSIVE RSumOver(_, _)
RSumOver(f, S) ==
  IF S = {} THEN Zero
  ELSE LET k == CHOOSE x \in S : TRUE IN RAdd(f[k], RSumOver(f, S \ {k}))

\* clamp(minStopATRMultiple, 0.5, maxStopATRMultiple) x average ATR
FloorDistance ==
  LET lo == IF IsNum(out.params.minStopATRMultiple)
              THEN out.params.minStopATRMultiple ELSE One
      hi == IF IsNum(out.params.maxStopATRMultiple)
              THEN out.params.maxStopATRMultiple ELSE RInt(3)
      mult == IF RLt(hi, lo) THEN (IF RLt(hi, R(5, 10)) THEN R(5, 10) ELSE hi)
              ELSE IF RLt(lo, R(5, 10)) THEN R(5, 10) ELSE lo
  IN  RMul(mult, RDiv(RSumOver(AtrInputs, DOMAIN AtrInputs),
                      RInt(Cardinality(DOMAIN AtrInputs))))

ReferenceClose ==
  LET closes == out.params.timeframes[1].candles.closes
  IN  closes[IF out.params.confirmOnClose THEN Len(closes) - 1 ELSE Len(closes)]

\* the distance from the reference close to x on the protective side
StopDistance(x) ==
  IF out.result.direction = "buy" THEN RSub(ReferenceClose, x)
  ELSE RSub(x, ReferenceClose)

FloorOverrides(x) ==
  DOMAIN AtrInputs # {} /\ RLt(StopDistance(x), FloorDistance)

Directed == NonEmptyDecision /\ out.result.direction \in {"buy", "sell"}

\* C11: when the direction is buy (sell) and the ATR floor does not
\* override, the chosen stop-loss is the median of the finite long (short)
\* stop candidates of all timeframes, the middle value of an odd count and
\* the mean of the two middle values of an even count, whatever the order
\* in which the timeframes were given.
C11_MedianStop ==
  (Directed /\ DOMAIN StopInputs # {})
    => \/ FloorOverrides(MedianOfInputs(StopInputs))
       \/ /\ IsNum(out.result.sizing.stopLossPrice)
          /\ REq(out.result.sizing.stopLossPrice, MedianOfInputs(StopInputs))
          /\ REq(out.result.breakdown.stopBlend.chosen, MedianOfInputs(StopInputs))

\* the candidates 110, 99, 105, 100 gathered in that order for a buy: 102.5
C11_Witness ==
  /\ Directed
  /\ out.result.direction = "buy"
  /\ Len(out.params.timeframes) = 4
  /\ [j \in 1..4 |-> out.params.timeframes[j].res["ema"].stopLong]
       = <<RInt(110), RInt(99), RInt(105), RInt(100)>>
  /\ ~FloorOverrides(MedianOfInputs(StopInputs))
  /\ REq(out.result.sizing.stopLossPrice, R(1025, 10))

\* C12: in a decision with direction buy (sell) in which some vote carries
\* an ATR and the reference close is finite, the stop-loss is at most the
\* reference close minus (at least the reference close plus) the floor
\* distance, with or without stop candidates, and it is never closer to
\* the reference close than the median of the candidates.
C12_AtrFloor ==
  (Directed /\ DOMAIN AtrInputs # {} /\ IsNum(ReferenceClose))
    => /\ IsNum(out.result.sizing.stopLossPrice)
       /\ RLe(FloorDistance, StopDistance(out.result.sizing.stopLossPrice))
       /\ DOMAIN StopInputs # {}
            => RLe(StopDistance(MedianOfInputs(StopInputs)),
                   StopDistance(out.result.sizing.stopLossPrice))

\* a sell whose only candidate, 121, is closer than three times the ATR
C12_Witness ==
  /\ Directed
  /\ out.result.direction = "sell"
  /\ DOMAIN StopInputs # {}
  /\ REq(out.params.minStopATRMultiple, RInt(5))
  /\ FloorOverrides(MedianOfInputs(StopInputs))
  /\ REq(StopDistance(out.result.sizing.stopLossPrice), FloorDistance)

\* C13: in every decision with direction buy or sell the position size is
\* at least 0.05 and at most maxPositionPct (0.5 when the caller gives
\* none).
C13_PositionWithinCap ==
  Directed
    => LET cap == IF IsNum(out.params.maxPositionPct)
                    THEN out.params.maxPositionPct ELSE R(5, 10)
       IN  /\ RLe(R(5, 100), out.result.sizing.positionPctOfDailyLimit)
           /\ RLe(out.result.sizing.positionPctOfDailyLimit, cap)

\* C14: updateWithOutcome(outcome, ids) leaves the record of every id that
\* is not in the list as it was, creates records only for ids of the list,
\* leaves the baseline weights as they were, and changes nothing when the
\* list is empty.
C14_UpdateFrame ==
  [][out'.op = "updateWithOutcome" =>
       /\ \A id \in DOMAIN perf \ Range(out'.usedIndicators) :
            id \in DOMAIN perf' /\ perf'[id] = perf[id]
       /\ DOMAIN perf' = DOMAIN perf \cup Range(out'.usedIndicators)
       /\ indicatorBase' = indicatorBase
       /\ out'.usedIndicators = <<>> => perf' = perf]_vars

\* rsi has a record and the last call named ema and custom
C14_Witness ==
  /\ out.op = "updateWithOutcome"
  /\ out.usedIndicators = <<"ema", "custom">>
  /\ DOMAIN perf = {"rsi", "ema", "custom"}
  /\ perf["rsi"].n = 1 /\ perf["ema"].n = 1

\* one update of a record, as the claim states it
StatedUpdate(rec, outcome) ==
  [ewmaWin |-> RAdd(RMul(R(88, 100), rec.ewmaWin),
                    RMul(R(12, 100), IF RLt(Zero, outcome) THEN One ELSE Zero)),
   ewmaEdge |-> RAdd(RMul(R(88, 100), rec.ewmaEdge), RMul(R(12, 100), outcome)),
   n |-> rec.n + 1]

RECURSIVE StatedUpdates(_, _, _)
StatedUpdates(rec, outcome, times) ==
  IF times = 0 THEN rec
  ELSE StatedUpdates(StatedUpdate(rec, outcome), outcome, times - 1)

SameRecord(a, b) ==
  REq(a.ewmaWin, b.ewmaWin) /\ REq(a.ewmaEdge, b.ewmaEdge) /\ a.n = b.n

ValidDistribution(w) ==
  /\ \A k \in DOMAIN w.v : RLe(Zero, W(w, k))
  /\ REq(SumValues(w), One)

SameWeights(a, b) ==
  /\ DOMAIN a.v = DOMAIN b.v
  /\ \A k \in DOMAIN a.v : REq(W(a, k), W(b, k))

\* the partial map with 0 in place of each negative value
ZeroForNegative(next) ==
  [k \in DOMAIN next |->
     IF IsNum(next[k]) /\ RLt(next[k], Zero) THEN Zero ELSE next[k]]

\* C16: after setBaselineWeights with any partial map, zero and negative
\* values included, the baseline and the effective weights of every
\* timeframe label are distributions (no value below 0, sum 1), and the
\* baseline is the one that 0 in place of each negative value gives.
C16_NegativeAsZero ==
  [][out'.op = "setBaselineWeights" =>
       /\ ValidDistribution(indicatorBase')
       /\ \A label \in TFLabels :
            ValidDistribution(buildIndicatorWeightsForTF(indicatorBase', perf', label))
       /\ SameWeights(indicatorBase',
                      setBaselineWeights(indicatorBase,
                                         ZeroForNegative(out'.next)))]_vars

\* the partial map without its undefined entries
DefinedPart(next) ==
  [k \in {x \in DOMAIN next : IsNum(next[x])} |-> next[k]]

\* C17: the baseline sums to 1 at construction and after every
\* setBaselineWeights call; a call keeps every id the baseline had, and
\* undefined entries of the partial map make no difference.
C17_BaselineSumsToOne ==
  [][/\ REq(SumValues(indicatorBase), One)
     /\ out'.op = "setBaselineWeights" =>
          /\ REq(SumValues(indicatorBase'), One)
          /\ DOMAIN indicatorBase.v \subseteq DOMAIN indicatorBase'.v
          /\ SameWeights(indicatorBase',
                         setBaselineWeights(indicatorBase,
                                            DefinedPart(out'.next)))]_vars

\* C18: a decision() call leaves the baseline weights and every performance
\* record as they were, so that what it returned is what decision() gives
\* for the same params in the state it leaves behind.
C18_DecisionKeepsState ==
  [][out'.op = "decision" =>
       /\ indicatorBase' = indicatorBase
       /\ perf' = perf
       /\ out'.result = DecisionResult(indicatorBase', perf', out'.params)]_vars

\* a decision on a daily timeframe, taken with a baseline that was set and
\* performance records that were updated
C18_Witness ==
  /\ out.op = "decision"
  /\ Len(out.params.timeframes) = 1
  /\ nSets > 0
  /\ indicatorBase # DefaultBase
  /\ DOMAIN perf # {}

HighTimeframes ==
  {j \in 1..Len(out.params.timeframes) :
     RLe(R(14, 10), out.result.weightsUsed.tfWeights[j].weight)}

\* there is one, and each agrees in sign with the ensemble score and
\* scores 0.25 or more in magnitude
HighAgree ==
  /\ HighTimeframes # {}
  /\ \A j \in HighTimeframes :
       /\ RSign(ScoreOf(j)) = RSign(out.result.breakdown.ensembleScore)
       /\ RLe(R(25, 100), RAbs(ScoreOf(j)))

EnsembleAtLeast(x) == RLe(x, RAbs(out.result.breakdown.ensembleScore))

\* quality is 1.0 when raised holds, else at least 0.95 when the ensemble
\* score reaches 0.4 in magnitude, else 0.85
QualityRule(raised) ==
  LET q == out.result.score.quality
  IN  /\ raised => REq(q, One)
      /\ EnsembleAtLeast(R(4, 10)) => RLe(R(95, 100), q)
      /\ (~raised /\ ~EnsembleAtLeast(R(4, 10))) => REq(q, R(85, 100))

\* C20 as stated: the quality is 0.85 by default, at least 0.95 when
\* |ensembleScore| >= 0.4, and 1.0 whenever some timeframe has weight 1.4
\* or more and all of those agree in sign with the ensemble score with
\* |score| >= 0.25, whatever the magnitude of the ensemble score.
C20_Original == NonEmptyDecision => QualityRule(HighAgree)

\* C20 amended: the quality is 0.85 by default, at least 0.95 when
\* |ensembleScore| >= 0.4, and 1.0 whenever the timeframes of weight 1.4 or
\* more agree as above and |ensembleScore| >= 0.6; agreement below 0.6
\* does not raise it.
C20_Amended ==
  NonEmptyDecision =>
    /\ QualityRule(HighAgree /\ EnsembleAtLeast(R(6, 10)))
    /\ ~EnsembleAtLeast(R(6, 10)) => RLe(out.result.score.quality, R(95, 100))

\* 5m scores +1 and 1D scores +1/2: the ensemble score is 2/3, the daily
\* timeframe agrees, and the quality is 1.0
C20_Witness ==
  /\ NonEmptyDecision
  /\ Len(out.params.timeframes) = 2
  /\ HighAgree
  /\ REq(out.result.breakdown.ensembleScore, R(2, 3))
  /\ REq(out.result.score.quality, One)

\* the length of a timeframe in minutes
MinutesOf(label) ==
  CASE label = L5m -> 5 [] label = L15m -> 15 [] label = L30m -> 30
    [] label = L1h -> 60 [] label = L4h -> 240 [] OTHER -> 1440

\* the most granular of the timeframes supplied
GranularTF ==
  LET tfs == out.params.timeframes
  IN  tfs[CHOOSE j \in 1..Len(tfs) :
            \A i \in 1..Len(tfs) : MinutesOf(tfs[j].label) <= MinutesOf(tfs[i].label)]

\* its latest close, the last closed bar under confirmOnClose
GranularClose ==
  LET closes == GranularTF.candles.closes
      i == IF out.params.confirmOnClose THEN Len(closes) - 1 ELSE Len(closes)
  IN  IF i >= 1 THEN closes[i] ELSE Undef

\* the position size that GranularClose as the reference price gives
PositionFromGranularClose ==
  LET sized(tfVotes) ==
        PositionPct(tfVotes, AllVotes(tfVotes), out.result.breakdown.ensembleScore,
                    out.result.score.confidence, <<GranularTF>>,
                    out.params.confirmOnClose,
                    Default(out.params.basePositionPct, R(25, 100)),
                    Default(out.params.maxPositionPct, R(5, 10)))
  IN  sized(TfVotes(indicatorBase, perf, out.params))

\* C21: in a buy or sell decision the ATR floor of the stop is measured
\* from the latest close of the most granular timeframe supplied, wherever
\* it stands in the list (seen where no vote brought a stop: the stop is
\* that close less the floor distance for buy, plus it for sell), and the
\* position size is the one which that close gives as reference price.
C21_GranularReference ==
  (Directed /\ IsNum(GranularClose)) =>
    /\ (DOMAIN StopInputs = {} /\ DOMAIN AtrInputs # {}) =>
         /\ IsNum(out.result.sizing.stopLossPrice)
         /\ REq(out.result.sizing.stopLossPrice,
                IF out.result.direction = "buy"
                  THEN RSub(GranularClose, FloorDistance)
                  ELSE RAdd(GranularClose, FloorDistance))
    /\ REq(out.result.sizing.positionPctOfDailyLimit, PositionFromGranularClose)

\* C22: every per-timeframe score that decision() reports lies in [-1, +1],
\* whatever setBaselineWeights and updateWithOutcome calls came before, and
\* it is 0 when no vote of the timeframe fires or the timeframe has no vote.
C22_TfScoreInRange ==
  NonEmptyDecision =>
    \A j \in 1..Len(out.params.timeframes) :
      /\ RLe(RInt(-1), ScoreOf(j))
      /\ RLe(ScoreOf(j), One)
      /\ (\A i \in 1..Len(Entries(j)) : Entries(j)[i].dir = 0) => REq(ScoreOf(j), Zero)

\* C23: the ensemble score of every decision lies in [-1, +1], also when
\* timeframes carry weights given by the caller (zero, negative, summing to
\* zero), and it is 0 when the timeframe weights sum to 0.
C23_EnsembleScoreInRange ==
  NonEmptyDecision =>
    /\ RLe(RInt(-1), out.result.breakdown.ensembleScore)
    /\ RLe(out.result.breakdown.ensembleScore, One)
    /\ REq(TotalWeight, Zero) => REq(out.result.breakdown.ensembleScore, Zero)

\* C24: on every timeframe of a decision, each of the nine evaluators whose
\* calculation reported ok:false returns isValid false, direction none,
\* entry no-trigger, directional 0 and confidence 0.
C24_FailedCalculationIsInvalid ==
  NonEmptyDecision =>
    \A j \in 1..Len(out.params.timeframes) :
      \A id \in IndicatorIds :
        out.params.timeframes[j].res[id].kind = "fail" =>
          LET res == Evaluate(id, out.params.timeframes[j].res[id])
          IN  /\ ~res.health.isValid
              /\ res.direction = "none"
              /\ res.entry = "no-trigger"
              /\ res.score.directional = 0
              /\ REq(res.score.confidence, Zero)

\* the decisions of the call without the valid ones that abstain
WithoutAbstainers ==
  SelectSeq(out.decisions, LAMBDA d : ~(d.health.isValid /\ d.score.directional = 0))

\* the weights of the valid decisions of the call, added up
ValidWeightTotal ==
  LET valid == SelectSeq(out.decisions, LAMBDA d : d.health.isValid)
  IN  RSumSeq([i \in 1..Len(valid) |->
                 IF valid[i].id \in DOMAIN out.weights THEN out.weights[valid[i].id]
                 ELSE Zero])

\* C25: in ensembleDecision a valid decision that abstains adds nothing to
\* numerator and denominator: finalScore is what the call gives without
\* the abstaining decisions, and it is 0 when the denominator is 0.
C25_AbstainersDoNotDilute ==
  out.op = "ensembleDecision" =>
    /\ REq(out.result.finalScore,
           ensembleDecision(WithoutAbstainers, out.weights,
                            out.result.thresholds.buyThreshold,
                            out.result.thresholds.sellThreshold).finalScore)
    /\ REq(ValidWeightTotal, Zero) => REq(out.result.finalScore, Zero)

\* C26: with the default thresholds the direction of ensembleDecision
\* agrees with its band: buy exactly for buy and strong_buy, sell exactly
\* for sell and strong_sell, none exactly for neutral.
C26_DirectionAgreesWithBand ==
  (/\ out.op = "ensembleDecision"
   /\ ~IsNum(out.opts.buyThreshold) /\ ~IsNum(out.opts.sellThreshold)) =>
    /\ out.result.direction = "buy" <=> out.result.band \in {"buy", "strong_buy"}
    /\ out.result.direction = "sell" <=> out.result.band \in {"sell", "strong_sell"}
    /\ out.result.direction = "none" <=> out.result.band = "neutral"

\* base[k] + delta, not below 0 when floored is set
TiltOf(k, delta, floored) ==
  LET x == RAdd(W(indicatorBase, k), delta)
  IN  IF floored /\ RLt(x, Zero) THEN Zero ELSE x

\* the tilted weights of a label are the stated ones
TiltIs(label, stated) ==
  \A k \in DOMAIN indicatorBase.v : REq(W(Tilted(label, indicatorBase), k), stated[k])

IntradayLabels == {L5m, L15m, L30m, L1h}

\* C27 as stated: intraday labels get vwap +0.03, volume +0.02, ichimoku
\* -0.03, alligator -0.02, every other label the opposite deltas, no other
\* indicator changes, and each tilted weight is floored at 0.
C27_Original ==
  \A label \in TFLabels :
    LET s == IF label \in IntradayLabels THEN 1 ELSE -1
    IN  TiltIs(label,
               [k \in DOMAIN indicatorBase.v |->
                  CASE k = "vwap" -> TiltOf(k, R(3 * s, 100), TRUE)
                    [] k = "volume" -> TiltOf(k, R(2 * s, 100), TRUE)
                    [] k = "ichimoku" -> TiltOf(k, R(-3 * s, 100), TRUE)
                    [] k = "alligator" -> TiltOf(k, R(-2 * s, 100), TRUE)
                    [] OTHER -> W(indicatorBase, k)])

\* C27 amended: intraday labels get vwap +0.03, volume +0.02, ichimoku
\* -0.03, alligator -0.02; every other label gets ema +0.02, ichimoku
\* +0.02, vwap -0.02, volume -0.02; no other indicator changes, and the
\* lowered weights, not the raised ones, are floored at 0.
C27_Amended ==
  \A label \in TFLabels :
    TiltIs(label,
           [k \in DOMAIN indicatorBase.v |->
              IF label \in IntradayLabels
                THEN CASE k = "vwap" -> TiltOf(k, R(3, 100), FALSE)
                       [] k = "volume" -> TiltOf(k, R(2, 100), FALSE)
                       [] k = "ichimoku" -> TiltOf(k, R(-3, 100), TRUE)
                       [] k = "alligator" -> TiltOf(k, R(-2, 100), TRUE)
                       [] OTHER -> W(indicatorBase, k)
                ELSE CASE k = "ema" -> TiltOf(k, R(2, 100), FALSE)
                       [] k = "ichimoku" -> TiltOf(k, R(2, 100), FALSE)
                       [] k = "vwap" -> TiltOf(k, R(-2, 100), TRUE)
                       [] k = "volume" -> TiltOf(k, R(-2, 100), TRUE)
                       [] OTHER -> W(indicatorBase, k)])

\* a decision on a daily timeframe under a baseline whose volume weight is
\* below 0.02, so that the tilt floors it at 0
C27_Witness ==
  /\ NonEmptyDecision
  /\ out.params.timeframes[1].label = L1D
  /\ RLt(Zero, W(indicatorBase, "volume"))
  /\ RLt(W(indicatorBase, "volume"), R(2, 100))
  /\ REq(W(Tilted(L1D, indicatorBase), "volume"), Zero)

\* average ATR of the call divided by its reference price
AtrPctOfCall ==
  RDiv(RDiv(RSumOver(AtrInputs, DOMAIN AtrInputs), RInt(Cardinality(DOMAIN AtrInputs))),
       ReferenceClose)

\* volatilities to compare with: 0%, 0.1%, 0.5%, 1%, 2%, 4%, 10%, 50%
VolGrid ==
  {Zero, R(1, 1000), R(5, 1000), R(1, 100), R(2, 100), R(4, 100), R(1, 10), R(1, 2)}

\* C28: the volatility factor of a buy or sell decision whose votes brought
\* an ATR (0 included) lies in [0.5, 1.5], is 1.5 when the ATR is 0, and no
\* higher volatility has a larger factor; with default parameters and no
\* timeframe of weight 1.4 or more the position size is
\* clamp(0.25 x confidence x 0.75 x factor, 0.05, 0.5).
C28_VolFactorNonIncreasing ==
  (Directed /\ DOMAIN AtrInputs # {}) =>
    LET a == AtrPctOfCall
    IN  /\ RLe(R(5, 10), VolFactor(a)) /\ RLe(VolFactor(a), R(15, 10))
        /\ REq(a, Zero) => REq(VolFactor(a), R(15, 10))
        /\ \A b \in VolGrid : RLe(a, b) => RLe(VolFactor(b), VolFactor(a))
        /\ \A b \in VolGrid : RLe(b, a) => RLe(VolFactor(a), VolFactor(b))
        /\ HighTimeframes = {} =>
             REq(out.result.sizing.positionPctOfDailyLimit,
                 RMax(R(5, 100),
                      RMin(R(5, 10),
                           RMul(RMul(RMul(R(25, 100), out.result.score.confidence),
                                     R(3, 4)),
                                VolFactor(a)))))

\* how many times id occurs in a list of ids
Occurrences(ids, id) == Cardinality({i \in 1..Len(ids) : ids[i] = id})

\* the ids that the step just taken fed back, none unless it was an update
FedBack == IF out'.op = "updateWithOutcome" THEN out'.usedIndicators ELSE <<>>

\* C29: performance records are never reset or removed.  The engine starts
\* without records, and every step of decision, setBaselineWeights,
\* getBaselineWeights, getPerformanceDB and updateWithOutcome calls in any
\* order keeps every record, lowers no sample count, and leaves each count
\* at what it was (0 for an id without a record) plus the number of
\* occurrences of the id in the list of that step, so that a count is the
\* number of occurrences of its id over all the lists so far.
C29_RecordsPersist ==
  /\ perf = <<>>
  /\ [][/\ \A id \in DOMAIN perf :
             id \in DOMAIN perf' /\ perf'[id].n >= perf[id].n
        /\ \A id \in DOMAIN perf' \cup Range(FedBack) :
             /\ id \in DOMAIN perf'
             /\ perf'[id].n = (IF id \in DOMAIN perf THEN perf[id].n ELSE 0)
                                + Occurrences(FedBack, id)]_vars

\* macd was named twice in one list, the baseline was replaced, and a
\* decision was taken after both
C29_Witness ==
  /\ out.op = "decision"
  /\ nSets = 1
  /\ DOMAIN perf = {"macd"}
  /\ perf["macd"].n = 2

\* the score that the reported votes of a timeframe give with the reported
\* weights: num / (den || 1)
AppliedScore(es) ==
  LET num == RSumSeq([i \in 1..Len(es) |-> Signed(es[i])])
      den == RSumSeq([i \in 1..Len(es) |-> Unsigned(es[i])])
  IN  IF RSign(den) = 0 THEN num ELSE RDiv(num, den)

\* C30: a decision() call is atomic with respect to setBaselineWeights and
\* updateWithOutcome.  However the three operations are interleaved, for
\* every timeframe and indicator of a decision the weight wInd reported in
\* breakdown.indicators is the effective weight of that indicator on that
\* timeframe in the state the call ran in, and the timeframe's reported
\* score is the score that the reported votes give with the reported
\* weights.
C30_ReportedWeightIsApplied ==
  NonEmptyDecision =>
    /\ \A j \in 1..Len(out.params.timeframes) :
         /\ REq(ScoreOf(j), AppliedScore(Entries(j)))
         /\ \A i \in 1..Len(Entries(j)) :
              Entries(j)[i].tf = out.params.timeframes[j].label
    /\ \A i \in 1..Len(out.result.breakdown.indicators) :
         REq(out.result.breakdown.indicators[i].wInd,
             WOf(EffectiveWeights(out.result.breakdown.indicators[i].tf),
                 out.result.breakdown.indicators[i].id))

\* a decision on a low and a high timeframe, taken after the baseline was
\* replaced and rsi was fed back: rsi weighs otherwise than in a new engine,
\* and otherwise on one timeframe than on the other
C30_Witness ==
  /\ NonEmptyDecision
  /\ Len(out.params.timeframes) = 2
  /\ nSets > 0
  /\ "rsi" \in DOMAIN perf
  /\ ~REq(WOf(EffectiveWeights(L5m), "rsi"),
          WOf(buildIndicatorWeightsForTF(DefaultBase, <<>>, L5m), "rsi"))
  /\ ~REq(WOf(EffectiveWeights(L5m), "rsi"), WOf(EffectiveWeights(L1D), "rsi"))
====
